---- MODULE Spec2Model ----
(***************************************************************************)
(* Context Health Bar (content.js): the conversation parser, instruction   *)
(* detector, noise detector, health scorer and the update handler that     *)
(* drives them.                                                            *)
(*                                                                         *)
(* Numbers.  JavaScript numbers are modelled as exact rationals in mixed   *)
(* form [i, n, d] = i + n/d with 0 <= n < d, n/d in lowest terms.  Every   *)
(* comparison of the source (ratio > 0.5, ratio > 0.7, health >= 80,       *)
(* Math.round) is decided on the exact value.                              *)
(*                                                                         *)
(* Text.  A text is a sequence of one-character strings; its length, its   *)
(* lower-casing, substring search, the bullet regexes and the djb2 hash    *)
(* are computed on the characters.                                         *)
(***************************************************************************)
EXTENDS Integers, Sequences, FiniteSets, TLC

\* ------------------------------------------------------------------------
\* CONFIG (content.js 13-68)
\* ------------------------------------------------------------------------
CHARS_PER_TOKEN == 4
TOKEN_HIGH == 40000
TOKEN_MEDIUM == 25000
TOKEN_LOW == 15000
CHAR_PENALTY_POINTS ==
    << [chars |-> 0, penalty |-> 0],
       [chars |-> 120000, penalty |-> 25],
       [chars |-> 240000, penalty |-> 50],
       [chars |-> 800000, penalty |-> 100] >>
MESSAGE_HIGH == 140
MESSAGE_MEDIUM == 100
MESSAGE_LOW == 60
LONG_MESSAGE_THRESHOLD == 4000
MIN_IMPERATIVES == 2
EARLY_MESSAGE_COUNT == 3

\* ------------------------------------------------------------------------
\* Exact arithmetic on JavaScript numbers
\* ------------------------------------------------------------------------
RECURSIVE GCD(_, _)
GCD(a, b) ==
    IF b = 0 THEN a ELSE GCD(b, a % b)

\* num / den for den > 0 (floor division, so the fraction part is >= 0)
Q(num, den) ==
    LET r == num % den
        g == GCD(den, r)
    IN  [i |-> num \div den, n |-> r \div g, d |-> den \div g]

QInt(k) == [i |-> k, n |-> 0, d |-> 1]

QAdd(a, b) ==
    LET carry == a.n * b.d >= (b.d - b.n) * a.d
        num == IF carry THEN a.n * b.d - (b.d - b.n) * a.d
                        ELSE a.n * b.d + b.n * a.d
        f == Q(num, a.d * b.d)
    IN  [i |-> a.i + b.i + (IF carry THEN 1 ELSE 0), n |-> f.n, d |-> f.d]

\* -q
QNeg(q) ==
    IF q.n = 0 THEN [i |-> 0 - q.i, n |-> 0, d |-> 1]
    ELSE [i |-> 0 - q.i - 1, n |-> q.d - q.n, d |-> q.d]

QSub(a, b) == QAdd(a, QNeg(b))

QLeq(a, b) ==
    \/ a.i < b.i
    \/ a.i = b.i /\ a.n * b.d <= b.n * a.d

QLess(a, b) == ~QLeq(b, a)

\* Math.max / Math.min
QMax(a, b) == IF QLeq(a, b) THEN b ELSE a

QMin(a, b) == IF QLeq(a, b) THEN a ELSE b

\* Math.round: nearest integer, a tie goes up
MathRound(q) == q.i + (IF q.n >= q.d - q.n THEN 1 ELSE 0)

\* variant: the quotient is rounded down
FloorDiv(a, b) == a \div b

\* Math.ceil(a / b) for integers a >= 0, b > 0
CeilDiv(a, b) == (a + b - 1) \div b

SetMax(S) == CHOOSE x \in S : \A y \in S : y <= x

SetMin(S) == CHOOSE x \in S : \A y \in S : x <= y

\* ------------------------------------------------------------------------
\* Text: sequences of one-character strings
\* ------------------------------------------------------------------------
\* String.prototype.charCodeAt for the characters that occur in the model
CharCode ==
    ("\t" :> 9) @@ ("\n" :> 10) @@ (" " :> 32) @@ ("'" :> 39) @@ ("*" :>
    42) @@ ("-" :> 45) @@ ("." :> 46) @@ ("0" :> 48) @@ ("1" :> 49) @@
    ("2" :> 50) @@ ("3" :> 51) @@ ("4" :> 52) @@ ("5" :> 53) @@ ("6" :>
    54) @@ ("7" :> 55) @@ ("8" :> 56) @@ ("9" :> 57) @@ ("A" :> 65) @@
    ("B" :> 66) @@ ("C" :> 67) @@ ("D" :> 68) @@ ("E" :> 69) @@ ("F" :>
    70) @@ ("G" :> 71) @@ ("H" :> 72) @@ ("I" :> 73) @@ ("J" :> 74) @@
    ("K" :> 75) @@ ("L" :> 76) @@ ("M" :> 77) @@ ("N" :> 78) @@ ("O" :>
    79) @@ ("P" :> 80) @@ ("Q" :> 81) @@ ("R" :> 82) @@ ("S" :> 83) @@
    ("T" :> 84) @@ ("U" :> 85) @@ ("V" :> 86) @@ ("W" :> 87) @@ ("X" :>
    88) @@ ("Y" :> 89) @@ ("Z" :> 90) @@ ("a" :> 97) @@ ("b" :> 98) @@
    ("c" :> 99) @@ ("d" :> 100) @@ ("e" :> 101) @@ ("f" :> 102) @@ ("g" :>
    103) @@ ("h" :> 104) @@ ("i" :> 105) @@ ("j" :> 106) @@ ("k" :> 107)
    @@ ("l" :> 108) @@ ("m" :> 109) @@ ("n" :> 110) @@ ("o" :> 111) @@
    ("p" :> 112) @@ ("q" :> 113) @@ ("r" :> 114) @@ ("s" :> 115) @@ ("t"
    :> 116) @@ ("u" :> 117) @@ ("v" :> 118) @@ ("w" :> 119) @@ ("x" :>
    120) @@ ("y" :> 121) @@ ("z" :> 122)

UpperCase == { "A", "B", "C", "D", "E", "F", "G", "H", "I", "J", "K", "L", "M",
               "N", "O", "P", "Q", "R", "S", "T", "U", "V", "W", "X", "Y", "Z" }

\* what toLowerCase does to one character (ASCII letters: code + 32)
LowerChar(c) ==
    IF c \in UpperCase
    THEN CHOOSE l \in DOMAIN CharCode : CharCode[l] = CharCode[c] + 32
    ELSE c

toLowerCase(text) == [k \in DOMAIN text |-> LowerChar(text[k])]

\* the regex class \s
IsSpace(c) == c \in { " ", "\n", "\t" }

IsDigit(c) == c \in { "0", "1", "2", "3", "4", "5", "6", "7", "8", "9" }

\* text.trim().length === 0
IsBlank(text) == \A k \in DOMAIN text : IsSpace(text[k])

\* String.prototype.includes
includes(text, phrase) ==
    \E k \in 1..(Len(text) - Len(phrase) + 1) :
        SubSeq(text, k, k + Len(phrase) - 1) = phrase

IMPERATIVE_PHRASES ==
    << << "y", "o", "u", " ", "a", "r", "e" >>,
       << "a", "c", "t", " ", "a", "s" >>,
       << "a", "l", "w", "a", "y", "s" >>,
       << "n", "e", "v", "e", "r" >>,
       << "d", "o", " ", "n", "o", "t" >>,
       << "d", "o", "n", "'", "t" >>,
       << "m", "u", "s", "t" >>,
       << "s", "h", "o", "u", "l", "d" >>,
       << "f", "o", "l", "l", "o", "w", " ", "t", "h", "e", "s", "e" >>,
       << "r", "e", "m", "e", "m", "b", "e", "r", " ", "t", "o" >>,
       << "m", "a", "k", "e", " ", "s", "u", "r", "e" >> >>

\* countImperativePhrases: the number of phrases of the list that occur
\* variant: the text is not lower-cased before the search
countImperativeCaseSensitive(text) ==
    Cardinality({ k \in DOMAIN IMPERATIVE_PHRASES :
                    includes(text, IMPERATIVE_PHRASES[k]) })

countImperativePhrases(text) ==
    LET lowerText == toLowerCase(text)
    IN  Cardinality({ k \in DOMAIN IMPERATIVE_PHRASES :
                        includes(lowerText, IMPERATIVE_PHRASES[k]) })

\* ^ with the m flag: start of the text or just after a line break
IsLineStart(text, k) == k = 1 \/ text[k - 1] = "\n"

\* /^[\s]*[-*]\s+/m
matchesDashBullet(text) ==
    \E k \in DOMAIN text : \E j \in k..Len(text) :
        /\ IsLineStart(text, k)
        /\ \A x \in k..(j - 1) : IsSpace(text[x])
        /\ text[j] \in { "-", "*" }
        /\ j + 1 <= Len(text)
        /\ IsSpace(text[j + 1])

\* /^[\s]*\d+\.\s+/m
matchesNumberBullet(text) ==
    \E k \in DOMAIN text : \E j \in k..Len(text) : \E e \in j..Len(text) :
        /\ IsLineStart(text, k)
        /\ \A x \in k..(j - 1) : IsSpace(text[x])
        /\ \A x \in j..e : IsDigit(text[x])
        /\ e + 2 <= Len(text)
        /\ text[e + 1] = "."
        /\ IsSpace(text[e + 2])

hasBulletList(text) == matchesDashBullet(text) \/ matchesNumberBullet(text)

\* one round of hashText on a 32-bit value kept as two 16-bit halves:
\* hash = ((hash << 5) + hash) + charCode; hash |= 0
hashStep(h, c) ==
    LET lo == h.lo * 33 + c
        hi == h.hi * 33 + (lo \div 65536)
    IN  [hi |-> hi % 65536, lo |-> lo % 65536]

RECURSIVE hashFrom(_, _, _)
hashFrom(text, k, h) ==
    IF k > Len(text) THEN h
    ELSE hashFrom(text, k + 1, hashStep(h, CharCode[text[k]]))

\* (hash >>> 0).toString(36): the base-36 digits, most significant first
RECURSIVE toString36(_)
toString36(h) ==
    IF h.hi = 0 /\ h.lo < 36 THEN << h.lo >>
    ELSE LET t == (h.hi % 36) * 65536 + h.lo
         IN  toString36([hi |-> h.hi \div 36, lo |-> t \div 36]) \o << t % 36 >>

hashText(text) == toString36(hashFrom(text, 1, [hi |-> 0, lo |-> 5381]))

\* ------------------------------------------------------------------------
\* CONVERSATION PARSER (content.js 97-172)
\* ------------------------------------------------------------------------
\* `msg_${role}_${textHash}_${occurrence}`
contentId(role, textHash, occurrence) ==
    [kind |-> "content", role |-> role, hash |-> textHash, n |-> occurrence]

\* `msg_${index}` (the positional scheme of earlier versions)
legacyId(index) ==
    [kind |-> "legacy", role |-> "", hash |-> << >>, n |-> index]

\* 'draft'
draftId == [kind |-> "draft", role |-> "", hash |-> << >>, n |-> 0]

NoId == [kind |-> "none", role |-> "", hash |-> << >>, n |-> 0]

\* the digits toString(36) writes
Base36Chars ==
    << "0", "1", "2", "3", "4", "5", "6", "7", "8", "9", "a", "b", "c", "d",
       "e", "f", "g", "h", "i", "j", "k", "l", "m", "n", "o", "p", "q", "r",
       "s", "t", "u", "v", "w", "x", "y", "z" >>

\* a number inside a template literal: its decimal digits
RECURSIVE decimalText(_)
decimalText(n) ==
    IF n < 10 THEN << Base36Chars[n + 1] >>
    ELSE decimalText(n \div 10) \o << Base36Chars[(n % 10) + 1] >>

roleText(role) ==
    IF role = "user" THEN << "u", "s", "e", "r" >>
    ELSE << "a", "s", "s", "i", "s", "t", "a", "n", "t" >>

\* the string an id is: `msg_${role}_${textHash}_${occurrence}`,
\* `msg_${index}` or 'draft'
idText(id) ==
    IF id.kind = "draft" THEN << "d", "r", "a", "f", "t" >>
    ELSE IF id.kind = "legacy" THEN << "m", "s", "g", "_" >> \o decimalText(id.n)
    ELSE << "m", "s", "g", "_" >> \o roleText(id.role) \o << "_" >>
             \o [k \in DOMAIN id.hash |-> Base36Chars[id.hash[k] + 1]]
             \o << "_" >> \o decimalText(id.n)

\* (messageCounts.get(key) || 0) + 1: every parsed message has incremented
\* the counter of its own (role, hash) key once
\* variant: the occurrence counter is not kept
occurrenceAlwaysFirst(messages, role, textHash) == 1

occurrenceOf(messages, role, textHash) ==
    1 + Cardinality({ k \in DOMAIN messages :
                        messages[k].role = role /\ messages[k].id.hash = textHash })

\* the forEach callback for element number k (index k - 1), applied to the
\* accumulated locals
parseElement(acc, k) ==
    LET element == acc.dom[k]
        textContent == element.text
        charCount == Len(textContent)
        tokens == CeilDiv(charCount, CHARS_PER_TOKEN)
        textHash == hashText(textContent)
        messageId == contentId(element.role, textHash,
                               occurrenceOf(acc.messages, element.role, textHash))
        legacy == legacyId(k - 1)
        hit == legacy \in acc.pinnedMessageIds
    IN  IF IsBlank(textContent) THEN acc
        ELSE [ acc EXCEPT
                 !.totalCharsFromMessages = @ + charCount,
                 !.dom[k].healthbarId = messageId,
                 !.pinnedMessageIds =
                     IF hit THEN (@ \ { legacy }) \cup { messageId } ELSE @,
                 !.migratedLegacyPins = @ \/ hit,
                 !.messages = Append(@, [ id |-> messageId,
                                          role |-> element.role,
                                          text |-> textContent,
                                          charCount |-> charCount,
                                          tokens |-> tokens,
                                          tokenStart |-> acc.cumulativeTokens,
                                          tokenEnd |-> acc.cumulativeTokens + tokens,
                                          isDraft |-> FALSE ]),
                 !.cumulativeTokens = @ + tokens ]

RECURSIVE parseElements(_, _)
parseElements(acc, k) ==
    IF k > Len(acc.dom) THEN acc
    ELSE parseElements(parseElement(acc, k), k + 1)

\* variant: a migration is not saved
saveSkipped(acc) == acc

\* if (migratedLegacyPins) savePinsToStorage(), after the loop
saveIfMigrated(acc) ==
    IF acc.migratedLegacyPins THEN [acc EXCEPT !.saveCalls = @ + 1] ELSE acc

\* the draft step of parseConversation (content.js 153-168)
parseDraft(acc, draftInput) ==
    IF ~IsBlank(draftInput)
    THEN LET tokens == CeilDiv(Len(draftInput), CHARS_PER_TOKEN)
         IN  [ acc EXCEPT
                 !.messages = Append(@, [ id |-> draftId,
                                          role |-> "user",
                                          text |-> draftInput,
                                          charCount |-> Len(draftInput),
                                          tokens |-> tokens,
                                          tokenStart |-> acc.cumulativeTokens,
                                          tokenEnd |-> acc.cumulativeTokens + tokens,
                                          isDraft |-> TRUE ]),
                 !.cumulativeTokens = @ + tokens ]
    ELSE acc

\* parseConversation: the returned object (messages, totalTokens,
\* totalCharsFromMessages, visibleChars) and what the pass did to the
\* elements' dataset and to state.pinnedMessageIds
parseConversation(domNow, draftInput, visible, pins) ==
    LET acc0 == [ dom |-> domNow,
                  messages |-> << >>,
                  cumulativeTokens |-> 0,
                  totalCharsFromMessages |-> 0,
                  pinnedMessageIds |-> pins,
                  migratedLegacyPins |-> FALSE,
                  saveCalls |-> 0 ]
        acc == parseDraft(saveIfMigrated(parseElements(acc0, 1)), draftInput)
    IN  [ messages |-> acc.messages,
          totalTokens |-> acc.cumulativeTokens,
          totalCharsFromMessages |-> acc.totalCharsFromMessages,
          visibleChars |-> visible,
          dom |-> acc.dom,
          pinnedMessageIds |-> acc.pinnedMessageIds,
          migratedLegacyPins |-> acc.migratedLegacyPins,
          saveCalls |-> acc.saveCalls ]

\* ------------------------------------------------------------------------
\* INSTRUCTION DETECTION (content.js 257-314)
\* ------------------------------------------------------------------------
\* variant: the rank is the position among all messages
userMessageIndexAbsolute(messages, index) == index

\* messages.filter((m, i) => i <= index && m.role === 'user').length
userMessageIndexOf(messages, index) ==
    Cardinality({ k \in 1..index : messages[k].role = "user" })

\* the heuristics of the forEach callback (content.js 270-290)
isHeuristicInstruction(messages, index) ==
    LET msg == messages[index]
        imperativeCount == countImperativePhrases(msg.text)
    IN  \/ imperativeCount >= MIN_IMPERATIVES
        \/ /\ userMessageIndexOf(messages, index) <= EARLY_MESSAGE_COUNT
           /\ hasBulletList(msg.text)
        \/ imperativeCount >= MIN_IMPERATIVES /\ msg.charCount < 800

\* variant: the PinSet is not consulted
isInstructionHeuristicOnly(messages, index, pins) ==
    LET msg == messages[index]
    IN  /\ msg.role = "user"
        /\ ~msg.isDraft
        /\ isHeuristicInstruction(messages, index)

\* whether the forEach callback pushes this index
isInstruction(messages, index, pins) ==
    LET msg == messages[index]
    IN  /\ msg.role = "user"
        /\ ~msg.isDraft
        /\ \/ msg.id \in pins
           \/ isHeuristicInstruction(messages, index)

\* the returned array; positions are 1-based here (index + 1)
detectInstructions(messages, pins) ==
    SelectSeq([k \in DOMAIN messages |-> k],
              LAMBDA k : isInstruction(messages, k, pins))

\* ------------------------------------------------------------------------
\* NOISE DETECTION (content.js 323-353)
\* ------------------------------------------------------------------------
IsAssistant(msg) == msg.role = "assistant"

IsLongMonologue(msg) == msg.role = "assistant" /\ msg.charCount > LONG_MESSAGE_THRESHOLD

\* nums[lo] + ... + nums[hi], by halves
RECURSIVE SumRange(_, _, _)
SumRange(nums, lo, hi) ==
    IF lo > hi THEN 0
    ELSE IF lo = hi THEN nums[lo]
    ELSE SumRange(nums, lo, (lo + hi) \div 2)
             + SumRange(nums, (lo + hi) \div 2 + 1, hi)

SumTokens(s) == SumRange([k \in DOMAIN s |-> s[k].tokens], 1, Len(s))

SumChars(s) == SumRange([k \in DOMAIN s |-> s[k].charCount], 1, Len(s))

\* assistantRatio > 0.7; with totalTokens = 0 the quotient is NaN for no
\* assistant token, and the comparison is false, and Infinity otherwise
AssistantDominates(assistantTokens, totalTokens) ==
    IF totalTokens = 0 THEN assistantTokens > 0
    ELSE 10 * assistantTokens > 7 * totalTokens

\* variant: every long assistant message adds its own 10
detectNoisePerMessage(messages, totalTokens) ==
    LET assistantTokens == SumTokens(SelectSeq(messages, IsAssistant))
        longMonologueCount == Len(SelectSeq(messages, IsLongMonologue))
    IN  10 * longMonologueCount
        + (IF AssistantDominates(assistantTokens, totalTokens) THEN 15 ELSE 0)

detectNoise(messages, totalTokens) ==
    LET assistantTokens == SumTokens(SelectSeq(messages, IsAssistant))
        longMonologueCount == Len(SelectSeq(messages, IsLongMonologue))
    IN  (IF longMonologueCount > 0 THEN 10 ELSE 0)
        + (IF AssistantDominates(assistantTokens, totalTokens) THEN 15 ELSE 0)

\* ------------------------------------------------------------------------
\* HEALTH CALCULATION (content.js 363-494)
\* ------------------------------------------------------------------------
\* formatCount: "1.25M" is <<125, "M">> (hundredths), "16k" is <<16, "k">>
formatCount(value) ==
    IF value >= 1000000 THEN << MathRound(Q(value, 10000)), "M" >>
    ELSE IF value >= 1000 THEN << MathRound(Q(value, 1000)), "k" >>
    ELSE << value, "" >>

RECURSIVE interpolateFrom(_, _, _)
interpolateFrom(points, value, i) ==
    IF i > Len(points) THEN QInt(points[Len(points)].penalty)
    ELSE LET prev == points[i - 1]
             next == points[i]
             span == next.chars - prev.chars
         IN  IF value <= next.chars
             THEN IF span <= 0 THEN QInt(next.penalty)
                  ELSE QAdd(QInt(prev.penalty),
                            Q((value - prev.chars) * (next.penalty - prev.penalty), span))
             ELSE interpolateFrom(points, value, i + 1)

interpolatePenalty(points, value) ==
    IF Len(points) = 0 THEN QInt(0)
    ELSE IF value <= points[1].chars THEN QInt(points[1].penalty)
    ELSE interpolateFrom(points, value, 2)

IsRealUser(msg) == msg.role = "user" /\ ~msg.isDraft

\* variant: the draft is a message like any other
IsAnyMessage(msg) == TRUE

IsNotDraft(msg) == ~msg.isDraft

\* variant: the first flagged index is taken
firstInstructionIndexOf(instructionIndices) ==
    SetMin({ instructionIndices[k] : k \in DOMAIN instructionIndices })

\* Math.max(...instructionIndices)
lastInstructionIndexOf(instructionIndices) ==
    SetMax({ instructionIndices[k] : k \in DOMAIN instructionIndices })

\* variant: the linear formula of version 1.0.0, distanceRatio * 60
distancePenaltyLinear(distanceFromEnd, totalTokens) ==
    IF totalTokens > 0 /\ distanceFromEnd > 0
    THEN Q(60 * distanceFromEnd, totalTokens)
    ELSE QInt(0)

\* (distanceRatio - 0.5) * 80 when distanceRatio > 0.5, else 0
distancePenalty(distanceFromEnd, totalTokens) ==
    IF totalTokens > 0 /\ 2 * distanceFromEnd > totalTokens
    THEN Q(80 * distanceFromEnd - 40 * totalTokens, totalTokens)
    ELSE QInt(0)

\* variant: the ramp is not capped
noInstructionPenaltyUncapped(totalChars) == Q(totalChars * 30, 120000)

\* Math.min(30, totalChars / 120000 * 30)
noInstructionPenalty(totalChars) == QMin(QInt(30), Q(totalChars * 30, 120000))

tokenPenaltyOf(effectiveTokens) ==
    IF effectiveTokens > TOKEN_HIGH THEN 30
    ELSE IF effectiveTokens > TOKEN_MEDIUM THEN 20
    ELSE IF effectiveTokens > TOKEN_LOW THEN 10
    ELSE 0

messagePenaltyOf(effectiveMessages) ==
    IF effectiveMessages > MESSAGE_HIGH THEN 30
    ELSE IF effectiveMessages > MESSAGE_MEDIUM THEN 20
    ELSE IF effectiveMessages > MESSAGE_LOW THEN 10
    ELSE 0

\* variant: the three penalties are added
lengthPenaltySum(tokenPenalty, charPenalty, messagePenalty) ==
    QAdd(QAdd(QInt(tokenPenalty), charPenalty), QInt(messagePenalty))

\* Math.max(tokenPenalty, charPenalty, messagePenalty)
lengthPenaltyOf(tokenPenalty, charPenalty, messagePenalty) ==
    QMax(QMax(QInt(tokenPenalty), charPenalty), QInt(messagePenalty))

\* variant: the visible-character estimate is ignored
messageCharsOnly(totalCharsFromMessages, totalCharsOverride) == totalCharsFromMessages

\* Math.max(totalCharsFromMessages, totalCharsOverride || 0)
effectiveCharsOf(totalCharsFromMessages, totalCharsOverride) ==
    IF totalCharsFromMessages >= totalCharsOverride
    THEN totalCharsFromMessages ELSE totalCharsOverride

\* variant: the lower clamp is missing
clampHealthUpperOnly(health) == QMin(QInt(100), health)

\* Math.max(0, Math.min(100, health))
clampHealth(health) == QMax(QInt(0), QMin(QInt(100), health))

tierOf(health) ==
    IF QLeq(QInt(80), health) THEN "stable"
    ELSE IF QLeq(QInt(50), health) THEN "degrading"
    ELSE IF QLeq(QInt(20), health) THEN "unreliable"
    ELSE "critical"

\* the body of calculateHealth: every local of the call and the fields of
\* the returned object
healthLocals(messages, totalTokens, instructionIndices, totalCharsOverride) ==
    LET hasUserMessages == \E k \in DOMAIN messages : IsRealUser(messages[k])
        nonDraftMessages == SelectSeq(messages, IsNotDraft)
        messageCount == Len(nonDraftMessages)
        totalCharsFromMessages == SumChars(nonDraftMessages)
        totalChars == effectiveCharsOf(totalCharsFromMessages, totalCharsOverride)
        hasInstr == Len(instructionIndices) > 0
        lastInstructionPos ==
            messages[lastInstructionIndexOf(instructionIndices)].tokenEnd
        distanceFromEnd == totalTokens - lastInstructionPos
        instructionPenalty ==
            IF hasInstr THEN distancePenalty(distanceFromEnd, totalTokens)
            ELSE IF hasUserMessages THEN noInstructionPenalty(totalChars)
            ELSE QInt(0)
        reasons1 ==
            IF hasInstr
            THEN IF distanceFromEnd > 5000
                 THEN << << "Primary instruction", distanceFromEnd \div 1000, "k tokens back" >> >>
                 ELSE << >>
            ELSE IF hasUserMessages THEN << << "No core instructions detected" >> >>
            ELSE << >>
        tokenPenalty == tokenPenaltyOf(totalTokens)
        charPenalty == interpolatePenalty(CHAR_PENALTY_POINTS, totalChars)
        messagePenalty == messagePenaltyOf(messageCount)
        lengthPenalty == lengthPenaltyOf(tokenPenalty, charPenalty, messagePenalty)
        reasons2 ==
            (IF lengthPenalty = QInt(tokenPenalty) /\ tokenPenalty > 0
             THEN << << "Conversation length", formatCount(totalTokens), "tokens" >> >>
             ELSE << >>)
            \o (IF lengthPenalty = charPenalty /\ QLess(QInt(0), charPenalty)
                THEN << << "Conversation length", formatCount(totalChars), "chars" >> >>
                ELSE << >>)
            \o (IF lengthPenalty = QInt(messagePenalty) /\ messagePenalty > 0
                THEN << << "Conversation length", << messageCount, "" >>, "messages" >> >>
                ELSE << >>)
        noisePenalty == detectNoise(messages, totalTokens)
        reasons3 ==
            IF noisePenalty > 0 THEN << << "Long assistant responses detected" >> >>
            ELSE << >>
        raw == QSub(QSub(QSub(QInt(100), instructionPenalty), lengthPenalty),
                    QInt(noisePenalty))
        health == clampHealth(raw)
    IN  [ health |-> MathRound(health),
          tier |-> tierOf(health),
          reasons |-> reasons1 \o reasons2 \o reasons3,
          hasUserMessages |-> hasUserMessages,
          debugStats |-> [ totalChars |-> totalChars,
                           totalTokens |->
                               IF totalTokens >= CeilDiv(totalChars, CHARS_PER_TOKEN)
                               THEN totalTokens
                               ELSE CeilDiv(totalChars, CHARS_PER_TOKEN),
                           messageCount |-> messageCount ],
          totalChars |-> totalChars,
          totalCharsFromMessages |-> totalCharsFromMessages,
          messageCount |-> messageCount,
          instructionPenalty |-> instructionPenalty,
          tokenPenalty |-> tokenPenalty,
          charPenalty |-> charPenalty,
          messagePenalty |-> messagePenalty,
          lengthPenalty |-> lengthPenalty,
          noisePenalty |-> noisePenalty ]

\* the object calculateHealth returns (content.js 455-465)
healthReport(L) ==
    [ health |-> L.health,
      tier |-> L.tier,
      reasons |-> L.reasons,
      hasUserMessages |-> L.hasUserMessages,
      debugStats |-> L.debugStats ]

calculateHealth(messages, totalTokens, instructionIndices, totalCharsOverride) ==
    healthReport(healthLocals(messages, totalTokens, instructionIndices,
                              totalCharsOverride))

\* ------------------------------------------------------------------------
\* STATE (content.js 74-87), the page and localStorage
\* ------------------------------------------------------------------------
VARIABLES
    phase,               \* "loading" until initialize has run, then "ready"
    pathname,            \* window.location.pathname, as its segments
    dom,                 \* the message elements of the page, in document order
    inputPresent,        \* whether the draft input element exists
    draft,               \* the text of the draft input
    visibleChars,        \* text length of the container the parser samples
    pinStore,            \* localStorage[STORAGE_KEY]
    handoffStore,        \* localStorage[HANDOFF_STORAGE_KEY]
    settingsStore,       \* localStorage[SETTINGS_KEY]
    now,                 \* Date.now()
    conversationId,      \* state.conversationId
    messages,            \* state.messages
    pinnedMessageIds,    \* state.pinnedMessageIds
    currentHealth,       \* state.currentHealth
    lastTier,            \* state.lastTier
    updateTimer,         \* state.updateTimer: a debounce timeout is pending
    handoffApplied,      \* state.handoffApplied
    handoffApplyTimer,   \* state.handoffApplyTimer and its closure
    settings,            \* state.settings
    autoLoadInProgress,  \* state.autoLoadInProgress
    autoLoadComplete,    \* state.autoLoadComplete
    autoLoadTimer,       \* the interval of startAutoLoadHistory and its closure
    hud,                 \* the healthData last rendered into the HUD
    lastParse,           \* the last call of parseConversation
    lastDetect,          \* the last call of detectInstructions
    lastPacket,          \* the last call of buildHandoffPacket
    calc,                \* the last call of calculateHealth
    arg                  \* the arguments of a direct call of calculateHealth

vars ==
    << phase, pathname, dom, inputPresent, draft, visibleChars, pinStore,
       handoffStore, settingsStore, now, conversationId, messages,
       pinnedMessageIds, currentHealth, lastTier, updateTimer, handoffApplied,
       handoffApplyTimer, settings, autoLoadInProgress, autoLoadComplete,
       autoLoadTimer, hud, lastParse, lastDetect, lastPacket, calc, arg >>

\* the state as one record, so that a handler can call another
Snapshot ==
    [ phase |-> phase, pathname |-> pathname, dom |-> dom,
      inputPresent |-> inputPresent, draft |-> draft,
      visibleChars |-> visibleChars, pinStore |-> pinStore,
      handoffStore |-> handoffStore, settingsStore |-> settingsStore,
      now |-> now, conversationId |-> conversationId, messages |-> messages,
      pinnedMessageIds |-> pinnedMessageIds, currentHealth |-> currentHealth,
      lastTier |-> lastTier, updateTimer |-> updateTimer,
      handoffApplied |-> handoffApplied,
      handoffApplyTimer |-> handoffApplyTimer, settings |-> settings,
      autoLoadInProgress |-> autoLoadInProgress,
      autoLoadComplete |-> autoLoadComplete, autoLoadTimer |-> autoLoadTimer,
      hud |-> hud, lastParse |-> lastParse, lastDetect |-> lastDetect,
      lastPacket |-> lastPacket, calc |-> calc ]

Commit(S) ==
    /\ phase' = S.phase
    /\ pathname' = S.pathname
    /\ dom' = S.dom
    /\ inputPresent' = S.inputPresent
    /\ draft' = S.draft
    /\ visibleChars' = S.visibleChars
    /\ pinStore' = S.pinStore
    /\ handoffStore' = S.handoffStore
    /\ settingsStore' = S.settingsStore
    /\ now' = S.now
    /\ conversationId' = S.conversationId
    /\ messages' = S.messages
    /\ pinnedMessageIds' = S.pinnedMessageIds
    /\ currentHealth' = S.currentHealth
    /\ lastTier' = S.lastTier
    /\ updateTimer' = S.updateTimer
    /\ handoffApplied' = S.handoffApplied
    /\ handoffApplyTimer' = S.handoffApplyTimer
    /\ settings' = S.settings
    /\ autoLoadInProgress' = S.autoLoadInProgress
    /\ autoLoadComplete' = S.autoLoadComplete
    /\ autoLoadTimer' = S.autoLoadTimer
    /\ hud' = S.hud
    /\ lastParse' = S.lastParse
    /\ lastPacket' = S.lastPacket
    /\ lastDetect' = S.lastDetect
    /\ calc' = S.calc

\* values of "nothing yet"
NoHud == [rendered |-> FALSE]

NoParse == [called |-> FALSE]

NoDetect == [called |-> FALSE]

NoPacket == [built |-> FALSE]

NoCalc == [called |-> FALSE]

NoTimer == [active |-> FALSE]

NoSettings == [loaded |-> FALSE]

AbsentItem == [kind |-> "absent"]

HANDOFF_EXPIRY_MS == 7200000
AUTO_LOAD_HISTORY == TRUE

\* ------------------------------------------------------------------------
\* PIN MANAGEMENT and SETTINGS (content.js 616-686, 791-832)
\* ------------------------------------------------------------------------
\* getConversationId: the segment after "chat", else 'default'
getConversationId(path) ==
    IF \E k \in 1..(Len(path) - 1) : path[k] = "chat"
    THEN path[1 + CHOOSE k \in 1..(Len(path) - 1) :
                    /\ path[k] = "chat"
                    /\ \A j \in 1..(k - 1) : path[j] # "chat"]
    ELSE "default"

\* { e : x \in { value } } computes value once and names it x, as a const
\* declaration or the passing of an argument does; Only takes e out again
Only(singleton) == CHOOSE r \in singleton : TRUE

\* JSON.parse(localStorage.getItem(KEY) || '{}') of the pins item; a
\* malformed item makes it throw
pinData(S) ==
    IF S.pinStore.kind = "object" THEN S.pinStore.data ELSE << >>

\* JSON.parse throws on a malformed text; reading or writing a property of
\* the parsed value throws if the value is null
pinStoreThrows(S) == S.pinStore.kind \in { "malformed", "null" }

savePinsToStorage(S) ==
    Only({ IF pinStoreThrows(st) THEN st
           ELSE [ st EXCEPT !.pinStore =
                    [ kind |-> "object",
                      data |-> (st.conversationId :> st.pinnedMessageIds)
                                   @@ pinData(st) ] ]
           : st \in { S } })

loadPinsFromStorage(S) ==
    Only({ IF pinStoreThrows(st) THEN [st EXCEPT !.pinnedMessageIds = {}]
           ELSE [ st EXCEPT !.pinnedMessageIds =
                    IF st.conversationId \in DOMAIN pinData(st)
                    THEN pinData(st)[st.conversationId] ELSE {} ]
           : st \in { S } })

getDefaultSettings == [autoLoadHistory |-> TRUE, handoffRichness |-> "rich"]

\* { ...defaults, ...data }
loadSettings(S) ==
    Only({ [ st EXCEPT !.settings =
               IF st.settingsStore.kind = "object"
               THEN [ loaded |-> TRUE,
                      autoLoadHistory |-> st.settingsStore.autoLoadHistory,
                      handoffRichness |-> st.settingsStore.handoffRichness ]
               ELSE [ loaded |-> TRUE,
                      autoLoadHistory |-> getDefaultSettings.autoLoadHistory,
                      handoffRichness |-> getDefaultSettings.handoffRichness ] ]
           : st \in { S } })

\* a mutation under document.body reaches the MutationObserver, which is
\* installed by initialize after its first update (content.js 1184-1194)
scheduleUpdate(S) == [S EXCEPT !.updateTimer = TRUE]

observed(S) ==
    Only({ IF st.phase = "ready" THEN scheduleUpdate(st) ELSE st : st \in { S } })

\* one element of injectPinIcons' forEach
withPinIcon(element, pins) ==
    IF element.role = "user" /\ ~element.icon.present /\ element.healthbarId # NoId
    THEN [ element EXCEPT !.icon =
             [ present |-> TRUE,
               messageId |-> element.healthbarId,
               pinned |-> element.healthbarId \in pins ] ]
    ELSE element

\* the page's elements after injectPinIcons' forEach
iconsInjected(S) ==
    [k \in DOMAIN S.dom |-> withPinIcon(S.dom[k], S.pinnedMessageIds)]

injectPinIcons(S) ==
    Only({ Only({ IF after = st.dom THEN st ELSE observed([st EXCEPT !.dom = after])
                  : after \in { iconsInjected(st) } })
           : st \in { S } })

\* ------------------------------------------------------------------------
\* HANDOFF: the packet (content.js 690-823)
\* ------------------------------------------------------------------------
HANDOFF_MAX_MESSAGE_CHARS == 900

HANDOFF_MAX_PINNED == 8

HANDOFF_MAX_RECENT == 12

HANDOFF_MAX_SALIENCE == 6

\* text.replace(/\s+/g, ' '): every run of white space becomes one space
RECURSIVE collapseSpaces(_, _)
collapseSpaces(text, k) ==
    IF k > Len(text) THEN << >>
    ELSE IF IsSpace(text[k])
         THEN IF k > 1 /\ IsSpace(text[k - 1]) THEN collapseSpaces(text, k + 1)
              ELSE << " " >> \o collapseSpaces(text, k + 1)
         ELSE << text[k] >> \o collapseSpaces(text, k + 1)

\* String.prototype.trim
trim(text) ==
    IF IsBlank(text) THEN << >>
    ELSE LET first == SetMin({ k \in DOMAIN text : ~IsSpace(text[k]) })
             last == SetMax({ k \in DOMAIN text : ~IsSpace(text[k]) })
         IN  SubSeq(text, first, last)

normalizeText(text) == trim(collapseSpaces(text, 1))

clipText(text, maxChars) ==
    LET normalized == normalizeText(text)
    IN  IF Len(normalized) <= maxChars THEN normalized
        ELSE SubSeq(normalized, 1, maxChars - 3) \o << ".", ".", "." >>

\* a handoffRichness that is null or not there
NoRichness == "(none)"

\* a wider pinned section for standard packets than for rich ones
getHandoffLimitsWidePinned(prefs) ==
    LET richness == IF prefs.loaded /\ prefs.handoffRichness \notin { "", NoRichness }
                    THEN prefs.handoffRichness ELSE "rich"
    IN  IF richness = "compact"
        THEN [maxChars |-> 400, maxPinned |-> 5, maxRecent |-> 6, maxSalience |-> 3]
        ELSE IF richness = "standard"
        THEN [maxChars |-> 700, maxPinned |-> 9, maxRecent |-> 8, maxSalience |-> 4]
        ELSE [ maxChars |-> HANDOFF_MAX_MESSAGE_CHARS,
               maxPinned |-> HANDOFF_MAX_PINNED,
               maxRecent |-> HANDOFF_MAX_RECENT,
               maxSalience |-> HANDOFF_MAX_SALIENCE ]

\* settings?.handoffRichness || 'rich', and the limits of that richness
getHandoffLimits(prefs) ==
    LET richness == IF prefs.loaded /\ prefs.handoffRichness \notin { "", NoRichness }
                    THEN prefs.handoffRichness ELSE "rich"
    IN  IF richness = "compact"
        THEN [maxChars |-> 400, maxPinned |-> 5, maxRecent |-> 6, maxSalience |-> 3]
        ELSE IF richness = "standard"
        THEN [maxChars |-> 700, maxPinned |-> 6, maxRecent |-> 8, maxSalience |-> 4]
        ELSE [ maxChars |-> HANDOFF_MAX_MESSAGE_CHARS,
               maxPinned |-> HANDOFF_MAX_PINNED,
               maxRecent |-> HANDOFF_MAX_RECENT,
               maxSalience |-> HANDOFF_MAX_SALIENCE ]

\* the regex class \w
IsWordChar(c) ==
    c \in UpperCase \/ IsDigit(c) \/ c = "_" \/ (c \in DOMAIN CharCode /\ CharCode[c] >= 97)

\* \bword\b with the i flag: the word occurs with no word character next to it
hasWord(text, word) ==
    LET lowerText == toLowerCase(text)
    IN  \E k \in 1..(Len(text) - Len(word) + 1) :
            /\ SubSeq(lowerText, k, k + Len(word) - 1) = word
            /\ (k = 1 \/ ~IsWordChar(text[k - 1]))
            /\ (k + Len(word) > Len(text) \/ ~IsWordChar(text[k + Len(word)]))

SALIENT_WORDS ==
    { << "i", "m", "p", "o", "r", "t", "a", "n", "t" >>,
      << "m", "u", "s", "t" >>,
      << "s", "h", "o", "u", "l", "d" >>,
      << "r", "e", "m", "e", "m", "b", "e", "r" >> }

\* the grave accent of a code fence; no text of the model contains one
Backtick == "grave"

scoreSalience(msg) ==
    (IF msg.role = "user" THEN 1 ELSE 0)
        + (IF hasBulletList(msg.text) THEN 3 ELSE 0)
        + (IF countImperativePhrases(msg.text) >= MIN_IMPERATIVES THEN 2 ELSE 0)
        + (IF msg.charCount > 1200 THEN 2 ELSE 0)
        + (IF includes(msg.text, << Backtick, Backtick, Backtick >>) THEN 2 ELSE 0)
        + (IF \E word \in SALIENT_WORDS : hasWord(msg.text, word) THEN 2 ELSE 0)

\* scored.sort: the higher score first, equal scores by position
RECURSIVE sortedByScore(_, _)
sortedByScore(msgs, candidates) ==
    IF candidates = {} THEN << >>
    ELSE LET best == CHOOSE k \in candidates :
                         \A j \in candidates :
                             \/ scoreSalience(msgs[k]) > scoreSalience(msgs[j])
                             \/ /\ scoreSalience(msgs[k]) = scoreSalience(msgs[j])
                                /\ k <= j
         IN  << best >> \o sortedByScore(msgs, candidates \ { best })

\* Array.prototype.slice(0, count)
firstOf(items, count) ==
    IF Len(items) <= count THEN items ELSE SubSeq(items, 1, count)

\* Array.prototype.slice(-count)
lastOf(items, count) ==
    IF Len(items) <= count THEN items
    ELSE SubSeq(items, Len(items) - count + 1, Len(items))

\* variant: the candidates are taken in transcript order
getSalientUnsorted(msgs, excludeIds, maxCount) ==
    LET keep(msg) == msg.id \notin excludeIds /\ scoreSalience(msg) > 0
    IN  firstOf(SelectSeq(msgs, keep), maxCount)

getSalientMessages(msgs, excludeIds, maxCount) ==
    LET scored == { k \in DOMAIN msgs :
                      /\ msgs[k].id \notin excludeIds
                      /\ scoreSalience(msgs[k]) > 0 }
        order == firstOf(sortedByScore(msgs, scored), maxCount)
    IN  [k \in DOMAIN order |-> msgs[order[k]]]

\* the msgs buildHandoffPacket puts into each of its sections
handoffSections(msgs, pins, prefs) ==
    LET notDraft(msg) == ~msg.isDraft
        isUser(msg) == msg.role = "user"
        isPinned(msg) == msg.id \in pins
        fullMessages == SelectSeq(msgs, notDraft)
        userMessages == SelectSeq(fullMessages, isUser)
        pinnedMessages == SelectSeq(fullMessages, isPinned)
        limits == getHandoffLimits(prefs)
        recentMessages == lastOf(fullMessages, limits.maxRecent)
        recentIds == { recentMessages[k].id : k \in DOMAIN recentMessages }
    IN  [ limits |-> limits,
          firstUser |-> firstOf(userMessages, 1),
          pinned |-> firstOf(pinnedMessages, limits.maxPinned),
          salient |-> getSalientMessages(fullMessages, recentIds, limits.maxSalience),
          lastUser |-> lastOf(userMessages, 1),
          recent |-> recentMessages ]

roleLabel(msg) ==
    IF msg.role = "user" THEN << "U", "s", "e", "r" >>
    ELSE << "A", "s", "s", "i", "s", "t", "a", "n", "t" >>

\* `- **User:** ${clipText(msg.text, limits.maxChars)}`
pinnedLine(msg, maxChars) ==
    << "-", " ", "*", "*" >> \o << "U", "s", "e", "r" >> \o << ":", "*", "*", " " >>
        \o clipText(msg.text, maxChars)

\* `- **${roleLabel}:** ${clipText(msg.text, limits.maxChars)}`
labelledLine(msg, maxChars) ==
    << "-", " ", "*", "*" >> \o roleLabel(msg) \o << ":", "*", "*", " " >>
        \o clipText(msg.text, maxChars)

\* the fixed lines of the packet
PacketHeadings ==
    [ header |->
          << "#", " ", "C", "o", "n", "t", "e", "x", "t", " ", "h", "a", "n", "d",
             "o", "f", "f", " ", "f", "r", "o", "m", " ", "p", "r", "e", "v",
             "i", "o", "u", "s", " ", "c", "h", "a", "t" >>,
      original |->
          << "#", "#", " ", "O", "r", "i", "g", "i", "n", "a", "l", " ", "r", "e",
             "q", "u", "e", "s", "t", ":" >>,
      pinned |->
          << "#", "#", "#", " ", "P", "i", "n", "n", "e", "d", " ", "i", "n", "s",
             "t", "r", "u", "c", "t", "i", "o", "n", "s", ":" >>,
      highlights |->
          << "#", "#", "#", " ", "K", "e", "y", " ", "h", "i", "g", "h", "l", "i",
             "g", "h", "t", "s", ":" >>,
      focus |->
          << "#", "#", "#", " ", "C", "u", "r", "r", "e", "n", "t", " ", "f", "o",
             "c", "u", "s", ":" >>,
      recent |->
          << "#", "#", "#", " ", "R", "e", "c", "e", "n", "t", " ", "e", "x", "c",
             "h", "a", "n", "g", "e", ":" >>,
      continue |->
          << "P", "l", "e", "a", "s", "e", " ", "c", "o", "n", "t", "i", "n", "u",
             "e", " ", "f", "r", "o", "m", " ", "t", "h", "i", "s", " ", "c",
             "o", "n", "t", "e", "x", "t", "." >> ]

\* the lines pushed by buildHandoffPacket
packetLines(sections) ==
    LET maxChars == sections.limits.maxChars
    IN  << PacketHeadings.header, << >> >>
        \o (IF sections.firstUser # << >>
            THEN << PacketHeadings.original, clipText(sections.firstUser[1].text, maxChars) >>
            ELSE << >>)
        \o (IF sections.pinned # << >>
            THEN << << >>, PacketHeadings.pinned >>
                 \o [k \in DOMAIN sections.pinned |->
                        pinnedLine(sections.pinned[k], maxChars)]
            ELSE << >>)
        \o (IF sections.salient # << >>
            THEN << << >>, PacketHeadings.highlights >>
                 \o [k \in DOMAIN sections.salient |->
                        labelledLine(sections.salient[k], maxChars)]
            ELSE << >>)
        \o (IF sections.lastUser # << >>
            THEN << << >>, PacketHeadings.focus, clipText(sections.lastUser[1].text, maxChars) >>
            ELSE << >>)
        \o (IF sections.recent # << >>
            THEN << << >>, PacketHeadings.recent >>
                 \o [k \in DOMAIN sections.recent |->
                        labelledLine(sections.recent[k], maxChars)]
            ELSE << >>)
        \o << << >>, PacketHeadings.continue >>

\* lines.join('\n')
RECURSIVE joinLines(_, _)
joinLines(lines, k) ==
    IF k > Len(lines) THEN << >>
    ELSE IF k = Len(lines) THEN lines[k]
    ELSE lines[k] \o << "\n" >> \o joinLines(lines, k + 1)

buildHandoffPacket(msgs, pins, prefs) ==
    joinLines(packetLines(handoffSections(msgs, pins, prefs)), 1)

\* ------------------------------------------------------------------------
\* HANDOFF: storage and insertion (content.js 870-1027)
\* ------------------------------------------------------------------------
\* loadHandoff: the payload or null, and the store afterwards
loadHandoff(S) ==
    LET h == S.handoffStore
    IN  IF h.kind = "absent" THEN [found |-> FALSE, store |-> h]
        ELSE IF h.kind = "malformed" THEN [found |-> FALSE, store |-> AbsentItem]
        ELSE IF h.packet = << >> \/ h.createdAt = 0 THEN [found |-> FALSE, store |-> h]
        ELSE IF S.now - h.createdAt > HANDOFF_EXPIRY_MS
             THEN [found |-> FALSE, store |-> AbsentItem]
        ELSE [found |-> TRUE, store |-> h]

\* `${text}\n\n---\n`
formattedHandoff(text) == text \o << "\n", "\n", "-", "-", "-", "\n" >>

\* setDraftInputText succeeds iff the input exists and is empty
canSetDraft(S) == S.inputPresent /\ IsBlank(S.draft)

\* variant: a successful insertion leaves the retry timer running
attemptApplyKeepsTimer(S, packet) ==
    Only({ IF canSetDraft(st)
           THEN observed([ st EXCEPT !.draft = formattedHandoff(packet),
                                     !.handoffStore = AbsentItem,
                                     !.handoffApplied = TRUE ])
           ELSE st
           : st \in { S } })

\* attemptApply of tryApplyHandoff, with the packet its closure holds
attemptApply(S, packet) ==
    Only({ IF canSetDraft(st)
           THEN observed([ st EXCEPT !.draft = formattedHandoff(packet),
                                     !.handoffStore = AbsentItem,
                                     !.handoffApplied = TRUE,
                                     !.handoffApplyTimer = NoTimer ])
           ELSE st
           : st \in { S } })

\* tryApplyHandoff once loadHandoff has returned
applyLoaded(S, loaded, msgs) ==
    LET S1 == [S EXCEPT !.handoffStore = loaded.store]
    IN  IF S.handoffApplied THEN S
        ELSE IF ~loaded.found THEN S1
        ELSE IF \E k \in DOMAIN msgs : IsRealUser(msgs[k]) THEN S1
        ELSE attemptApply(
                 IF ~S1.handoffApplyTimer.active
                 THEN [ S1 EXCEPT !.handoffApplyTimer =
                          [ active |-> TRUE, attempts |-> 0,
                            packet |-> S.handoffStore.packet,
                            createdAt |-> S.handoffStore.createdAt ] ]
                 ELSE S1,
                 S.handoffStore.packet)

tryApplyHandoff(S, msgs) ==
    Only({ Only({ applyLoaded(st, loaded, msgs) : loaded \in { loadHandoff(st) } })
           : st \in { S } })

HANDOFF_RETRY_MS == 500

HANDOFF_MAX_ATTEMPTS == 20

\* the callback of the retry interval: half a second after the previous
\* one, it gives up past the twentieth attempt and else tries to insert
\* the packet its closure holds
handoffRetry(S) ==
    Only({ IF st.handoffApplyTimer.attempts > HANDOFF_MAX_ATTEMPTS
           THEN [st EXCEPT !.handoffApplyTimer = NoTimer]
           ELSE attemptApply(st, st.handoffApplyTimer.packet)
           : st \in { [ S EXCEPT !.now = @ + HANDOFF_RETRY_MS,
                                  !.handoffApplyTimer.attempts = @ + 1 ] } })

\* ------------------------------------------------------------------------
\* MAIN UPDATE LOGIC (content.js 503-517, 561-597, 1036-1088)
\* ------------------------------------------------------------------------
\* renderHUD with updateHUD: the HUD shows healthData; rewriting its text
\* is a mutation under document.body
renderHUD(S, healthData) ==
    Only({ observed([ S EXCEPT !.hud = [rendered |-> TRUE, data |-> data],
                               !.currentHealth = data.health,
                               !.lastTier = data.tier ])
           : data \in { healthData } })

\* variant: no early return, the empty transcript is scored like any other
emptyReportScored(totalTokens, totalCharsForPenalty) ==
    calculateHealth(<< >>, totalTokens, << >>, totalCharsForPenalty)

\* the report of the early return (content.js 1040-1056)
emptyReport(totalTokens, totalCharsForPenalty) ==
    [ health |-> 100,
      tier |-> "stable",
      reasons |-> << >>,
      hasUserMessages |-> FALSE,
      debugStats |-> [ totalChars |-> totalCharsForPenalty,
                       totalTokens |->
                           IF totalTokens >= CeilDiv(totalCharsForPenalty, CHARS_PER_TOKEN)
                           THEN totalTokens
                           ELSE CeilDiv(totalCharsForPenalty, CHARS_PER_TOKEN),
                       messageCount |-> 0 ] ]

callRecord(msgs, totalTokens, instructionIndices, totalCharsOverride) ==
    Only({ [ called |-> TRUE,
             messages |-> msgs,
             totalTokens |-> totalTokens,
             instructionIndices |-> instructionIndices,
             totalCharsOverride |-> totalCharsOverride,
             locals |-> L,
             result |-> healthReport(L) ]
           : L \in { healthLocals(msgs, totalTokens, instructionIndices,
                                  totalCharsOverride) } })

\* const totalCharsForPenalty = Math.max(totalCharsFromMessages, visibleChars)
totalCharsForPenaltyOf(parsed) ==
    IF parsed.totalCharsFromMessages >= parsed.visibleChars
    THEN parsed.totalCharsFromMessages ELSE parsed.visibleChars

\* the call of parseConversation, as the history records it
parseRecord(domBefore, draftInput, pinsBefore, parsed) ==
    [ called |-> TRUE,
      dom |-> domBefore,
      draft |-> draftInput,
      pinsBefore |-> pinsBefore,
      messages |-> parsed.messages,
      totalTokens |-> parsed.totalTokens,
      totalCharsFromMessages |-> parsed.totalCharsFromMessages,
      pinnedMessageIds |-> parsed.pinnedMessageIds,
      saveCalls |-> parsed.saveCalls ]

\* the state once parseConversation has returned: it has tagged the
\* elements, and saved the pins if it migrated a legacy one
afterParse(S, parsed) ==
    Only({ IF parsed.saveCalls > 0 THEN savePinsToStorage(S1) ELSE S1
           : S1 \in { [ S EXCEPT
                          !.dom = parsed.dom,
                          !.pinnedMessageIds = parsed.pinnedMessageIds,
                          !.lastParse =
                              parseRecord(S.dom,
                                          IF S.inputPresent THEN S.draft ELSE << >>,
                                          S.pinnedMessageIds, parsed) ] } })

\* updateHealthBar past its early return
scoreAndRender(S1, parsed) ==
    Only({ Only({ tryApplyHandoff(
                      injectPinIcons(
                          renderHUD(
                              [ S1 EXCEPT
                                  !.messages = parsed.messages,
                                  !.lastDetect = [ called |-> TRUE,
                                                   messages |-> parsed.messages,
                                                   pins |-> S1.pinnedMessageIds,
                                                   result |-> instructionIndices ],
                                  !.calc = call ],
                              call.result)),
                      parsed.messages)
                  : call \in { callRecord(parsed.messages, parsed.totalTokens,
                                          instructionIndices,
                                          totalCharsForPenaltyOf(parsed)) } })
           : instructionIndices \in
                 { detectInstructions(parsed.messages, S1.pinnedMessageIds) } })

\* updateHealthBar once parseConversation has returned
updateParsed(S, parsed) ==
    Only({ IF Len(parsed.messages) = 0
           THEN tryApplyHandoff(
                    renderHUD(S1, emptyReport(parsed.totalTokens,
                                              totalCharsForPenaltyOf(parsed))),
                    parsed.messages)
           ELSE scoreAndRender(S1, parsed)
           : S1 \in { afterParse(S, parsed) } })

updateHealthBar(S) ==
    Only({ Only({ updateParsed(st, parsed)
                  : parsed \in
                        { parseConversation(
                              st.dom, IF st.inputPresent THEN st.draft ELSE << >>,
                              st.visibleChars, st.pinnedMessageIds) } })
           : st \in { S } })

togglePin(S, messageId) ==
    LET toggled == [ S EXCEPT !.pinnedMessageIds =
                       IF messageId \in @ THEN @ \ { messageId }
                       ELSE @ \cup { messageId } ]
    IN  injectPinIcons(updateHealthBar(savePinsToStorage(toggled)))

\* ------------------------------------------------------------------------
\* INITIALIZATION (content.js 1097-1215)
\* ------------------------------------------------------------------------
startAutoLoadHistory(S) ==
    Only({ IF /\ AUTO_LOAD_HISTORY
              /\ st.settings.loaded /\ st.settings.autoLoadHistory
              /\ ~(st.autoLoadInProgress \/ st.autoLoadComplete)
              /\ Len(st.pathname) >= 2 /\ st.pathname[1] = "chat"
              /\ Len(st.dom) > 0
           THEN [ st EXCEPT !.autoLoadInProgress = TRUE,
                            !.autoLoadTimer = [ active |-> TRUE,
                                                startTime |-> st.now,
                                                lastCount |-> Len(st.dom),
                                                idleTicks |-> 0 ] ]
           ELSE st
           : st \in { S } })

AUTO_LOAD_INTERVAL_MS == 400

AUTO_LOAD_MAX_MS == 12000

AUTO_LOAD_IDLE_TICKS == 6

\* variant: a finished run stays marked as in progress
autoLoadTickKeepsProgress(S, delay) ==
    Only({ IF \/ st.now - st.autoLoadTimer.startTime > AUTO_LOAD_MAX_MS
              \/ st.autoLoadTimer.idleTicks >= AUTO_LOAD_IDLE_TICKS
           THEN scheduleUpdate([ st EXCEPT !.autoLoadTimer = NoTimer,
                                           !.autoLoadComplete = TRUE ])
           ELSE IF Len(st.dom) > st.autoLoadTimer.lastCount
           THEN [ st EXCEPT !.autoLoadTimer.lastCount = Len(st.dom),
                            !.autoLoadTimer.idleTicks = 0 ]
           ELSE [ st EXCEPT !.autoLoadTimer.idleTicks = @ + 1 ]
           : st \in { [S EXCEPT !.now = @ + delay] } })

\* the callback of the auto-load interval, delay after the previous one:
\* it ends the run past the maximum duration or after the idle ticks, and
\* else counts the message elements and scrolls up (content.js 1138-1161)
autoLoadTick(S, delay) ==
    Only({ IF \/ st.now - st.autoLoadTimer.startTime > AUTO_LOAD_MAX_MS
              \/ st.autoLoadTimer.idleTicks >= AUTO_LOAD_IDLE_TICKS
           THEN scheduleUpdate([ st EXCEPT !.autoLoadTimer = NoTimer,
                                           !.autoLoadInProgress = FALSE,
                                           !.autoLoadComplete = TRUE ])
           ELSE IF Len(st.dom) > st.autoLoadTimer.lastCount
           THEN [ st EXCEPT !.autoLoadTimer.lastCount = Len(st.dom),
                            !.autoLoadTimer.idleTicks = 0 ]
           ELSE [ st EXCEPT !.autoLoadTimer.idleTicks = @ + 1 ]
           : st \in { [S EXCEPT !.now = @ + delay] } })

saveSettings(S) ==
    [ S EXCEPT !.settingsStore = [ kind |-> "object",
                                   autoLoadHistory |-> S.settings.autoLoadHistory,
                                   handoffRichness |-> S.settings.handoffRichness ] ]

\* the change listener of the autoLoadHistory checkbox (content.js 855-866)
settingChanged(S, checked) ==
    Only({ updateHealthBar(IF checked THEN startAutoLoadHistory(st) ELSE st)
           : st \in { saveSettings([S EXCEPT !.settings.autoLoadHistory = checked]) } })

initialize(S) ==
    Only({ [S3 EXCEPT !.phase = "ready"]
           : S3 \in { startAutoLoadHistory(updateHealthBar(loadPinsFromStorage(
                          loadSettings([ S EXCEPT !.conversationId =
                                           getConversationId(S.pathname) ])))) } })

\* ------------------------------------------------------------------------
\* Bounds and input sets
\* ------------------------------------------------------------------------
\* at most this many message elements on the page
MaxMessages == 2

\* at most this many runs of equal messages in a generated transcript
MaxRuns == 2

TxtPlain == << "h", "i" >>

TxtImper == << "M", "u", "s", "t", " ", "n", "e", "v", "e", "r" >>

TxtBullet == << "-", " ", "a" >>

TxtBlank == << " " >>

\* one phrase of the set, twice
TxtRepeat == << "m", "u", "s", "t", " ", "m", "u", "s", "t" >>

Texts == { TxtPlain, TxtImper, TxtBlank }

DraftTexts == { << >>, TxtPlain }

Roles == { "user", "assistant" }

\* text lengths of the sampled container
VisibleSamples == { 0, 44700 }

\* the address of the page and what localStorage holds for the pins when
\* the page loads
InitialPages ==
    { [pathname |-> << "chat", "a" >>, pinStore |-> AbsentItem],
      [pathname |-> << "chat", "a" >>,
       pinStore |-> [kind |-> "object", data |-> ("a" :> { legacyId(0) })]],
      [pathname |-> << "new" >>, pinStore |-> AbsentItem] }

newElement(role, text) ==
    [role |-> role, text |-> text, healthbarId |-> NoId, icon |-> [present |-> FALSE]]

\* the message elements a page may show: user messages of every text and
\* a plain assistant message
PageElements ==
    { newElement("user", text) : text \in Texts }
        \cup { newElement("assistant", TxtPlain) }

\* ------------------------------------------------------------------------
\* The page session
\* ------------------------------------------------------------------------
\* the script has been loaded (content.js 74-87); initialize has not run
InitState ==
    /\ phase = "loading"
    /\ dom = << >>
    /\ draft = << >>
    /\ visibleChars = 0
    /\ handoffStore = AbsentItem
    /\ settingsStore = AbsentItem
    /\ now = 0
    /\ conversationId = "null"
    /\ messages = << >>
    /\ pinnedMessageIds = {}
    /\ currentHealth = 100
    /\ lastTier = "stable"
    /\ updateTimer = FALSE
    /\ handoffApplied = FALSE
    /\ handoffApplyTimer = NoTimer
    /\ settings = NoSettings
    /\ autoLoadInProgress = FALSE
    /\ autoLoadComplete = FALSE
    /\ autoLoadTimer = NoTimer
    /\ hud = NoHud
    /\ lastParse = NoParse
    /\ lastDetect = NoDetect
    /\ lastPacket = NoPacket
    /\ calc = NoCalc

NoArg == [given |-> FALSE]

Init ==
    /\ InitState
    /\ \E page \in InitialPages :
          /\ pathname = page.pathname
          /\ pinStore = page.pinStore
    /\ inputPresent \in BOOLEAN
    /\ arg = NoArg

\* DOMContentLoaded (content.js 1218-1222)
Initialize ==
    /\ phase = "loading"
    /\ \E done \in { initialize(Snapshot) } : Commit(done)
    /\ UNCHANGED arg

\* the page shows one more message element
AppendMessage(role, text) ==
    /\ phase = "ready"
    /\ Len(dom) < MaxMessages
    /\ \E done \in { observed([Snapshot EXCEPT !.dom = Append(@, newElement(role, text))]) } : Commit(done)
    /\ UNCHANGED arg

\* the page creates the draft input
InputAppears ==
    /\ phase = "ready"
    /\ ~inputPresent
    /\ \E done \in { observed([Snapshot EXCEPT !.inputPresent = TRUE]) } : Commit(done)
    /\ UNCHANGED arg

\* the user edits the draft
EditDraft(text) ==
    /\ phase = "ready"
    /\ inputPresent
    /\ text # draft
    /\ \E done \in { observed([Snapshot EXCEPT !.draft = text]) } : Commit(done)
    /\ UNCHANGED arg

\* other text of the sampled container changes
PageTextChanges(v) ==
    /\ phase = "ready"
    /\ v # visibleChars
    /\ \E done \in { observed([Snapshot EXCEPT !.visibleChars = v]) } : Commit(done)
    /\ UNCHANGED arg

\* the debounce timeout of scheduleUpdate fires (content.js 1085-1087)
UpdateTimerFires ==
    /\ updateTimer
    /\ \E done \in { updateHealthBar([Snapshot EXCEPT !.updateTimer = FALSE]) } : Commit(done)
    /\ UNCHANGED arg

\* click on the pin icon of element k (content.js 633-636)
ClickPin(k) ==
    /\ phase = "ready"
    /\ k \in DOMAIN dom
    /\ dom[k].icon.present
    /\ \E done \in { togglePin(Snapshot, dom[k].icon.messageId) } : Commit(done)
    /\ UNCHANGED arg

Next ==
    \/ Initialize
    \/ \E element \in PageElements : AppendMessage(element.role, element.text)
    \/ InputAppears
    \/ \E text \in DraftTexts : EditDraft(text)
    \/ \E v \in VisibleSamples : PageTextChanges(v)
    \/ UpdateTimerFires
    \/ \E k \in 1..MaxMessages : ClickPin(k)

Spec == Init /\ [][Next]_vars

\* ------------------------------------------------------------------------
\* The page session over persisted state
\* ------------------------------------------------------------------------
\* Date.now() when the page loads
LoadTime == 8000000

\* a handoff record written createdAt = LoadTime - age by another page
handoffAged(age) ==
    [kind |-> "object", createdAt |-> LoadTime - age, conversationId |-> "b",
     packet |-> TxtPlain]

\* the page and what localStorage holds when it loads: a conversation with
\* stored pins of every shape, or a new chat with a stored handoff
StoredPages ==
    { [pathname |-> << "chat", "a" >>, pinStore |-> pins, handoffStore |-> AbsentItem] :
        pins \in { [kind |-> "object", data |-> ("b" :> { legacyId(0) })],
                   [kind |-> "object",
                    data |-> ("a" :> { legacyId(1) }) @@ ("b" :> { legacyId(0) })],
                   [kind |-> "malformed"],
                   [kind |-> "null"] } }
        \cup
    { [pathname |-> << "new" >>, pinStore |-> AbsentItem, handoffStore |-> handoff] :
        handoff \in { [kind |-> "malformed"],
                      [handoffAged(0) EXCEPT !.packet = << >>],
                      [handoffAged(0) EXCEPT !.createdAt = 0],
                      handoffAged(HANDOFF_EXPIRY_MS),
                      handoffAged(HANDOFF_EXPIRY_MS + 1),
                      handoffAged(HANDOFF_EXPIRY_MS - HANDOFF_RETRY_MS) } }

InitStore ==
    /\ phase = "loading"
    /\ dom = << >>
    /\ draft = << >>
    /\ visibleChars = 0
    /\ settingsStore = AbsentItem
    /\ now = LoadTime
    /\ conversationId = "null"
    /\ messages = << >>
    /\ pinnedMessageIds = {}
    /\ currentHealth = 100
    /\ lastTier = "stable"
    /\ updateTimer = FALSE
    /\ handoffApplied = FALSE
    /\ handoffApplyTimer = NoTimer
    /\ settings = NoSettings
    /\ autoLoadInProgress = FALSE
    /\ autoLoadComplete = FALSE
    /\ autoLoadTimer = NoTimer
    /\ hud = NoHud
    /\ lastParse = NoParse
    /\ lastDetect = NoDetect
    /\ lastPacket = NoPacket
    /\ calc = NoCalc
    /\ \E page \in StoredPages :
          /\ pathname = page.pathname
          /\ pinStore = page.pinStore
          /\ handoffStore = page.handoffStore
    /\ inputPresent \in BOOLEAN
    /\ arg = NoArg

\* the retry interval of tryApplyHandoff fires (content.js 1016-1024)
HandoffTimerFires ==
    /\ handoffApplyTimer.active
    /\ \E done \in { handoffRetry(Snapshot) } : Commit(done)
    /\ UNCHANGED arg

\* the user sends the draft: the page shows it as a user message and
\* empties the input
SendDraft ==
    /\ phase = "ready"
    /\ inputPresent
    /\ trim(draft) # << >>
    /\ Len(dom) < MaxMessages
    /\ \E done \in { observed([ Snapshot EXCEPT
                                   !.dom = Append(@, newElement("user", draft)),
                                   !.draft = << >> ]) } : Commit(done)
    /\ UNCHANGED arg

NextStore ==
    \/ Initialize
    \/ SendDraft
    \/ \E role \in Roles : AppendMessage(role, TxtPlain)
    \/ InputAppears
    \/ \E text \in DraftTexts : EditDraft(text)
    \/ UpdateTimerFires
    \/ \E k \in 1..MaxMessages : ClickPin(k)
    \/ HandoffTimerFires

SpecStore == InitStore /\ [][NextStore]_vars

\* ------------------------------------------------------------------------
\* The page session of a new chat with a stored handoff
\* ------------------------------------------------------------------------
\* what the user leaves in the input: nothing, a text, or a space
HandoffDrafts == DraftTexts \cup { TxtBlank }

\* a new chat that loads while the stored record is still valid
InitHandoff ==
    /\ InitStore
    /\ pathname = << "new" >>
    /\ handoffStore \in { handoffAged(HANDOFF_EXPIRY_MS),
                           handoffAged(HANDOFF_EXPIRY_MS - HANDOFF_RETRY_MS) }

NextHandoff ==
    \/ Initialize
    \/ SendDraft
    \/ AppendMessage("assistant", TxtPlain)
    \/ InputAppears
    \/ \E text \in HandoffDrafts : EditDraft(text)
    \/ UpdateTimerFires
    \/ HandoffTimerFires

SpecHandoff == InitHandoff /\ [][NextHandoff]_vars

\* ------------------------------------------------------------------------
\* detectInstructions on generated transcripts
\* ------------------------------------------------------------------------
\* at most this many message elements in a generated transcript
MaxTranscript == 4

\* at most this many pinned messages in a generated transcript
MaxPins == 1

DetectTexts == { TxtPlain, TxtImper, TxtBullet, TxtRepeat }

\* user messages of every text and an assistant message with imperatives
DetectElements ==
    { newElement("user", text) : text \in DetectTexts }
        \cup { newElement("assistant", TxtImper) }

\* the draft input of a generated page: empty, or with two phrases
DetectDrafts == { << >>, TxtImper }

\* a page, its draft and a PinSet holding the ids of some of its user
\* messages (the pin icon is on user messages only)
DetectArgs(elements) ==
    LET parsed == parseConversation(elements, << >>, 0, {})
        pinnable == { k \in DOMAIN parsed.messages : parsed.messages[k].role = "user" }
    IN  { [ given |-> TRUE,
            dom |-> elements,
            draft |-> << >>,
            pins |-> { parsed.messages[k].id : k \in P } ] :
          P \in { X \in SUBSET pinnable : Cardinality(X) <= MaxPins } }
        \cup
        { [given |-> TRUE, dom |-> elements, draft |-> draftInput, pins |-> {}] :
          draftInput \in DetectDrafts }

\* no page session: the state of a script that has not started
Idle ==
    /\ InitState
    /\ pathname = << "new" >>
    /\ pinStore = AbsentItem
    /\ inputPresent = FALSE

mainVars ==
    << phase, pathname, dom, inputPresent, draft, visibleChars, pinStore,
       handoffStore, settingsStore, now, conversationId, messages,
       pinnedMessageIds, currentHealth, lastTier, updateTimer, handoffApplied,
       handoffApplyTimer, settings, autoLoadInProgress, autoLoadComplete,
       autoLoadTimer, hud >>

InitDetect ==
    /\ Idle
    /\ \E n \in 0..MaxTranscript :
          \E elements \in [1..n -> DetectElements] : arg \in DetectArgs(elements)

\* parse the page and call detectInstructions(messages) with the PinSet
DetectStep ==
    /\ arg.given
    /\ ~lastDetect.called
    /\ LET parsed == parseConversation(arg.dom, arg.draft, 0, arg.pins)
       IN  lastDetect' = [ called |-> TRUE,
                           messages |-> parsed.messages,
                           pins |-> parsed.pinnedMessageIds,
                           result |-> detectInstructions(parsed.messages,
                                                         parsed.pinnedMessageIds) ]
    /\ UNCHANGED << mainVars, lastParse, lastPacket, calc, arg >>

NextDetect == DetectStep

SpecDetect == InitDetect /\ [][NextDetect]_vars

\* ------------------------------------------------------------------------
\* parseConversation on generated pages
\* ------------------------------------------------------------------------
\* at most this many message elements on a generated page
MaxPage == 3

\* the positional ids msg_0 .. msg_(MaxLegacy - 1) may be pinned before the pass
MaxLegacy == 2

TxtAb == << "a", "b" >>

\* another text with the hash of TxtAb: 33 * 97 + 98 = 33 * 98 + 65
TxtBa == << "b", "A" >>

\* five characters: more than one token
TxtFive == << "H", "e", "l", "l", "o" >>

ParseElements ==
    { newElement("user", TxtAb), newElement("user", TxtBa),
      newElement("assistant", TxtAb), newElement("assistant", TxtFive),
      newElement("user", TxtBlank) }

ParseDrafts == { << >>, TxtAb, TxtBlank }

\* what the PinSet may hold before the pass: positional ids of an earlier
\* version, with or without a content id
PinSets ==
    { P \cup C : P \in SUBSET { legacyId(i) : i \in 0..(MaxLegacy - 1) },
                 C \in { {}, { contentId("user", hashText(TxtAb), 1) } } }

\* the pins kept for another conversation
OtherPins == "b" :> { legacyId(0) }

\* a user message with two imperative phrases, then as many assistant
\* messages as the recent window of a compact packet holds
RecentFill ==
    << newElement("user", TxtImper) >>
        \o [k \in 1..6 |-> newElement("assistant", TxtPlain)]

loadedSettings(richness) ==
    [loaded |-> TRUE, autoLoadHistory |-> TRUE, handoffRichness |-> richness]

\* the stored handoffRichness values besides the default and compact: an
\* option of the select, null, the empty string and a value of no option,
\* and the settings before loadSettings
OtherSettings ==
    { loadedSettings("standard"), loadedSettings(NoRichness), loadedSettings(""),
      loadedSettings("verbose"), NoSettings }

\* a short page with the default settings and any draft, the page followed
\* by a full recent window, with compact packets and a draft, or a short
\* page without draft and pins under each of the other settings
PageKinds ==
    { [fill |-> << >>, settings |-> loadedSettings("rich"),
       drafts |-> ParseDrafts, pins |-> PinSets],
      [fill |-> RecentFill, settings |-> loadedSettings("compact"),
       drafts |-> { TxtAb }, pins |-> PinSets] }
    \cup { [fill |-> << >>, settings |-> prefs, drafts |-> { << >> }, pins |-> { {} }] :
              prefs \in OtherSettings }

ParseArgs(elements) ==
    UNION { { [given |-> TRUE, dom |-> elements \o kind.fill, draft |-> d,
               pins |-> pins, settings |-> kind.settings] :
                d \in kind.drafts,
                pins \in kind.pins }
            : kind \in PageKinds }

InitParse ==
    /\ Idle
    /\ \E n \in 0..MaxPage :
          \E elements \in [1..n -> ParseElements] : arg \in ParseArgs(elements)

\* conversation "a" shows the elements; the settings and the PinSet are
\* the given ones
pageLoaded(S, a) ==
    [ S EXCEPT !.phase = "ready",
               !.pathname = << "chat", "a" >>,
               !.conversationId = "a",
               !.dom = a.dom,
               !.inputPresent = TRUE,
               !.draft = a.draft,
               !.settings = a.settings,
               !.pinnedMessageIds = a.pins,
               !.pinStore = [kind |-> "object",
                             data |-> ("a" :> a.pins) @@ OtherPins] ]

\* one pass of updateHealthBar over the page
PassStep ==
    /\ arg.given
    /\ ~lastParse.called
    /\ \E done \in { updateHealthBar(pageLoaded(Snapshot, arg)) } : Commit(done)
    /\ UNCHANGED arg

packetRecord(sections) ==
    [ built |-> TRUE, sections |-> sections, packet |-> joinLines(packetLines(sections), 1) ]

\* buildHandoffPacket(state.messages), as startHandoff and
\* copyHandoffToClipboard call it
PacketStep ==
    /\ lastParse.called
    /\ ~lastPacket.built
    /\ Len(messages) > 0
    /\ lastPacket' = packetRecord(handoffSections(messages, pinnedMessageIds, settings))
    /\ UNCHANGED << mainVars, lastParse, lastDetect, calc, arg >>

NextParse == PassStep \/ PacketStep

SpecParse == InitParse /\ [][NextParse]_vars

\* ------------------------------------------------------------------------
\* calculateHealth on generated transcripts
\* ------------------------------------------------------------------------
\* a run: count messages of one role with the same length
RunTemplates ==
    { [role |-> "user", chars |-> 400, count |-> 1],
      [role |-> "user", chars |-> 1200, count |-> 1],
      [role |-> "user", chars |-> 3, count |-> 71],
      [role |-> "assistant", chars |-> 400, count |-> 1],
      [role |-> "assistant", chars |-> 1200, count |-> 1],
      [role |-> "assistant", chars |-> 2800, count |-> 1],
      [role |-> "assistant", chars |-> 4400, count |-> 1],
      [role |-> "user", chars |-> 1600, count |-> 30],
      [role |-> "assistant", chars |-> 400, count |-> 40],
      [role |-> "user", chars |-> 1600, count |-> 71],
      [role |-> "assistant", chars |-> 1600, count |-> 71] }

RunLists == UNION { [1..n -> RunTemplates] : n \in 0..MaxRuns }

\* length of the draft; 0 is no draft
DraftSizes == { 0, 64000 }

OverrideSamples == { 0, 44700, 48000, 120000, 180000, 250000, 900000 }

\* the messages parseConversation builds for a run that starts at token
\* offset, with the fields calculateHealth and detectNoise read
runMessages(run, offset) ==
    LET tokens == CeilDiv(run.chars, CHARS_PER_TOKEN)
    IN  [ j \in 1..run.count |->
            [ role |-> run.role,
              charCount |-> run.chars,
              tokens |-> tokens,
              tokenEnd |-> offset + j * tokens,
              isDraft |-> FALSE ] ]

RECURSIVE transcriptFrom(_, _, _)
transcriptFrom(runs, k, acc) ==
    IF k > Len(runs) THEN acc
    ELSE transcriptFrom(runs, k + 1,
             acc \o runMessages(runs[k],
                                IF acc = << >> THEN 0 ELSE acc[Len(acc)].tokenEnd))

withDraft(msgs, draftChars) ==
    LET offset == IF msgs = << >> THEN 0 ELSE msgs[Len(msgs)].tokenEnd
        tokens == CeilDiv(draftChars, CHARS_PER_TOKEN)
    IN  IF draftChars = 0 THEN msgs
        ELSE Append(msgs, [ role |-> "user",
                            charCount |-> draftChars, tokens |-> tokens,
                            tokenEnd |-> offset + tokens,
                            isDraft |-> TRUE ])

RECURSIVE SortedSeq(_)
SortedSeq(S) ==
    IF S = {} THEN << >>
    ELSE << SetMin(S) >> \o SortedSeq(S \ { SetMin(S) })

\* positions detectInstructions may flag: the last message of every run of
\* equal user messages
flaggable(msgs) ==
    { k \in DOMAIN msgs :
        /\ IsRealUser(msgs[k])
        /\ \/ k = Len(msgs)
           \/ msgs[k + 1].role # "user" \/ msgs[k + 1].charCount # msgs[k].charCount
           \/ msgs[k + 1].isDraft }

\* the transcript parseConversation builds from the runs and the draft
healthMessages(runs, draftChars) ==
    withDraft(transcriptFrom(runs, 1, << >>), draftChars)

\* the running total of parseConversation: where the last message ends
totalTokensOf(msgs) ==
    IF msgs = << >> THEN 0 ELSE msgs[Len(msgs)].tokenEnd

\* a transcript, given by its runs and its draft, the positions flagged in
\* it and the visible text length
HealthArgs(runs, draftChars, override) ==
    { [ given |-> TRUE,
        runs |-> runs,
        draftChars |-> draftChars,
        instructionIndices |-> SortedSeq(I),
        totalCharsOverride |-> override ] :
      I \in SUBSET flaggable(healthMessages(runs, draftChars)) }

InitHealth ==
    /\ Idle
    /\ \E runs \in RunLists, draftChars \in DraftSizes, override \in OverrideSamples :
          arg \in HealthArgs(runs, draftChars, override)

\* calculateHealth(messages, totalTokens, instructionIndices, totalCharsOverride)
CalcStep ==
    /\ arg.given
    /\ ~calc.called
    /\ \E msgs \in { healthMessages(arg.runs, arg.draftChars) } :
          calc' = callRecord(msgs, totalTokensOf(msgs), arg.instructionIndices,
                             arg.totalCharsOverride)
    /\ UNCHANGED << mainVars, lastParse, lastDetect, lastPacket, arg >>

NextHealth == CalcStep

SpecHealth == InitHealth /\ [][NextHealth]_vars

\* ------------------------------------------------------------------------
\* The page session across conversations
\* ------------------------------------------------------------------------
\* the addresses the page moves between without a reload
NavPaths == { << "chat", "a" >>, << "chat", "b" >> }

\* the pins item when the page loads: none, or a pinned message of "a"
NavPinStores ==
    { AbsentItem,
      [kind |-> "object",
       data |-> ("a" :> { contentId("user", hashText(TxtPlain), 1) })] }

InitNav ==
    /\ InitState
    /\ pathname \in NavPaths \cup { << "new" >> }
    /\ pinStore \in NavPinStores
    /\ inputPresent = TRUE
    /\ arg = NoArg

\* the page changes its address through the history API and takes the
\* message elements of the conversation it leaves out of the document;
\* initialize does not run again
Navigate(path) ==
    /\ phase = "ready"
    /\ path # pathname
    /\ \E done \in { observed([Snapshot EXCEPT !.pathname = path, !.dom = << >>]) } :
          Commit(done)
    /\ UNCHANGED arg

NextNav ==
    \/ Initialize
    \/ \E path \in NavPaths : Navigate(path)
    \/ \E text \in { TxtPlain, TxtImper } : AppendMessage("user", text)
    \/ UpdateTimerFires
    \/ \E k \in 1..MaxMessages : ClickPin(k)

SpecNav == InitNav /\ [][NextNav]_vars

\* ------------------------------------------------------------------------
\* The page session of a conversation whose history loads
\* ------------------------------------------------------------------------
\* time between two callbacks of the auto-load interval: the interval, or
\* longer when the browser throttles the timers of the page
TickDelays == { AUTO_LOAD_INTERVAL_MS, 15 * AUTO_LOAD_INTERVAL_MS }

\* the page holds no or one message element when it loads
InitAutoLoad ==
    /\ phase = "loading"
    /\ pathname \in { << "chat", "a" >>, << "new" >> }
    /\ dom \in { << >>, << newElement("user", TxtPlain) >> }
    /\ inputPresent = TRUE
    /\ draft = << >>
    /\ visibleChars = 0
    /\ pinStore = AbsentItem
    /\ handoffStore = AbsentItem
    /\ settingsStore = AbsentItem
    /\ now = 0
    /\ conversationId = "null"
    /\ messages = << >>
    /\ pinnedMessageIds = {}
    /\ currentHealth = 100
    /\ lastTier = "stable"
    /\ updateTimer = FALSE
    /\ handoffApplied = FALSE
    /\ handoffApplyTimer = NoTimer
    /\ settings = NoSettings
    /\ autoLoadInProgress = FALSE
    /\ autoLoadComplete = FALSE
    /\ autoLoadTimer = NoTimer
    /\ hud = NoHud
    /\ lastParse = NoParse
    /\ lastDetect = NoDetect
    /\ lastPacket = NoPacket
    /\ calc = NoCalc
    /\ arg = NoArg

\* the interval of startAutoLoadHistory fires
AutoLoadTimerFires ==
    /\ autoLoadTimer.active
    /\ \E delay \in TickDelays :
          \E done \in { autoLoadTick(Snapshot, delay) } : Commit(done)
    /\ UNCHANGED arg

\* the user switches the autoLoadHistory checkbox of the HUD
SettingChanges ==
    /\ phase = "ready"
    /\ hud.rendered
    /\ \E checked \in BOOLEAN :
          /\ checked # settings.autoLoadHistory
          /\ \E done \in { settingChanged(Snapshot, checked) } : Commit(done)
    /\ UNCHANGED arg

NextAutoLoad ==
    \/ Initialize
    \/ \E role \in Roles : AppendMessage(role, TxtPlain)
    \/ UpdateTimerFires
    \/ SettingChanges
    \/ AutoLoadTimerFires

\* setInterval keeps calling back while the interval is not cleared
SpecAutoLoad ==
    InitAutoLoad /\ [][NextAutoLoad]_vars /\ WF_vars(AutoLoadTimerFires)

\* ------------------------------------------------------------------------
\* Properties
\* ------------------------------------------------------------------------
\* q is exactly num / den (num >= 0, den > 0)
QIs(q, num, den) ==
    /\ q.i = num \div den
    /\ den % q.d = 0
    /\ q.n * (den \div q.d) = num % den

Range(seq) == { seq[k] : k \in DOMAIN seq }

\* the three penalties of the recorded call, added up
PenaltySum ==
    QAdd(QAdd(calc.locals.instructionPenalty, calc.locals.lengthPenalty),
         QInt(calc.locals.noisePenalty))

\* C1: the health calculateHealth reports is the integer nearest to
\* 100 - instructionPenalty - lengthPenalty - noisePenalty clamped to 0..100
\* (a tie rounds up), so it is an integer between 0 and 100.
T_C1_HealthIsRoundedClamp ==
    calc.called =>
        LET h == calc.result.health
            P == PenaltySum
        IN  /\ h \in 0..100
            /\ QLeq(QInt(100), P) => h = 0
            /\ QLeq(P, QInt(0)) => h = 100
            /\ (QLess(QInt(0), P) /\ QLess(P, QInt(100))) =>
                   /\ QLess(Q(2 * (100 - h) - 1, 2), P)
                   /\ QLeq(P, Q(2 * (100 - h) + 1, 2))

\* a call whose penalties have a fractional sum strictly inside 0..100
W_C1_FractionalHealth ==
    /\ calc.called
    /\ PenaltySum.n # 0
    /\ calc.result.health \in 1..99

bandOf(h) ==
    IF h >= 80 THEN "stable"
    ELSE IF h >= 50 THEN "degrading"
    ELSE IF h >= 20 THEN "unreliable"
    ELSE "critical"

\* C2: in every report of calculateHealth the tier is the band of the
\* reported integer health (80.. stable, 50..79 degrading, 20..49
\* unreliable, ..19 critical).
CE_C2_TierIsBandOfReportedHealth ==
    calc.called => calc.result.tier = bandOf(calc.result.health)

\* a step in which updateHealthBar runs
UpdateRuns ==
    \/ Initialize
    \/ UpdateTimerFires
    \/ \E k \in 1..MaxMessages : ClickPin(k)

\* no message element with text is on the page
NoMessageElement == \A k \in DOMAIN dom : IsBlank(dom[k].text)

\* the draft input is missing or holds only white space
NoDraft == ~inputPresent \/ IsBlank(draft)

\* C3: an update that finds no messages and no draft renders the fixed
\* report health 100, tier stable, no reasons, hasUserMessages false,
\* messageCount 0, whatever the visible-character estimate is.
T_C3_EmptyTranscriptFixedReport ==
    [][ (NoMessageElement /\ NoDraft /\ UpdateRuns) =>
            /\ hud'.rendered
            /\ hud'.data.health = 100
            /\ hud'.data.tier = "stable"
            /\ hud'.data.reasons = << >>
            /\ hud'.data.hasUserMessages = FALSE
            /\ hud'.data.debugStats.messageCount = 0 ]_vars

\* the fixed report is on the HUD of a page without messages and draft whose
\* sampled container holds text
W_C3_EmptyTranscriptWithVisibleText ==
    /\ phase = "ready"
    /\ NoMessageElement /\ NoDraft
    /\ visibleChars > 0
    /\ hud.rendered
    /\ hud.data.debugStats.totalChars = visibleChars
    /\ hud.data.health = 100
    /\ hud.data.reasons = << >>

\* C4: every update in which the parser finds no message element renders
\* health 100 and tier stable, whatever the draft and the visible-character
\* estimate are.
CE_C4_NoElementsFailOpen ==
    [][ (NoMessageElement /\ UpdateRuns) =>
            /\ hud'.rendered
            /\ hud'.data.health = 100
            /\ hud'.data.tier = "stable" ]_vars

\* C5: every non-draft user message whose id is in the PinSet has its index
\* in the result of detectInstructions, whatever its text and its rank among
\* the user messages.
T_C5_PinnedIsInstruction ==
    lastDetect.called =>
        \A k \in DOMAIN lastDetect.messages :
            LET msg == lastDetect.messages[k]
            IN  (msg.role = "user" /\ ~msg.isDraft /\ msg.id \in lastDetect.pins)
                    => k \in Range(lastDetect.result)

\* a pinned user message without imperative phrase and without list, behind
\* the first three user messages, is returned
W_C5_PinnedPlainLateMessage ==
    /\ lastDetect.called
    /\ \E k \in DOMAIN lastDetect.messages :
          LET msg == lastDetect.messages[k]
          IN  /\ msg.role = "user"
              /\ msg.text = TxtPlain
              /\ msg.id \in lastDetect.pins
              /\ Cardinality({ j \in 1..k : lastDetect.messages[j].role = "user" })
                     > EARLY_MESSAGE_COUNT
              /\ k \in Range(lastDetect.result)

\* the recorded call flagged at least one message
HasInstructions == calc.called /\ Len(calc.instructionIndices) > 0

\* the highest flagged position of the recorded call
HighestFlagged ==
    CHOOSE m \in Range(calc.instructionIndices) :
        \A j \in Range(calc.instructionIndices) : j <= m

\* token position at which the last flagged message ends
LastInstructionEnd == calc.messages[HighestFlagged].tokenEnd

\* C6: with flagged messages the instruction penalty is a function of the
\* highest flagged index alone: d = totalTokens - tokenEnd, r = d / totalTokens,
\* penalty 0 if r <= 0.5, else (r - 0.5) * 80; it lies within 0..40.
T_C6_PenaltyFromLastInstruction ==
    HasInstructions =>
        LET T == calc.totalTokens
            d == T - LastInstructionEnd
            pen == calc.locals.instructionPenalty
        IN  /\ T >= 1
            /\ 2 * d <= T => pen = QInt(0)
            /\ 2 * d > T => QIs(pen, 80 * d - 40 * T, T)
            /\ QLeq(QInt(0), pen) /\ QLeq(pen, QInt(40))

\* two flagged messages, the later one far enough back to be penalised
W_C6_TwoFlaggedPenalised ==
    /\ HasInstructions
    /\ Len(calc.instructionIndices) >= 2
    /\ QLess(QInt(0), calc.locals.instructionPenalty)

\* C7 as stated: last instruction ending at p = 0.5 T gives penalty 0,
\* p = 0.75 T gives 20, p = T gives 40.
CE_C7_PenaltyByEndPosition ==
    HasInstructions =>
        LET T == calc.totalTokens
            p == LastInstructionEnd
            pen == calc.locals.instructionPenalty
        IN  /\ 2 * p = T => pen = QInt(0)
            /\ 4 * p = 3 * T => pen = QInt(20)
            /\ p = T => pen = QInt(40)

\* C7 amended: the penalty follows the share of tokens after the last
\* instruction: ending at p = 0.5 T gives 0, at p = 0.25 T gives 20, and at
\* p = T (instruction last) gives 0.
T_C7_PenaltyByDistance ==
    HasInstructions =>
        LET T == calc.totalTokens
            p == LastInstructionEnd
            pen == calc.locals.instructionPenalty
        IN  /\ 2 * p = T => pen = QInt(0)
            /\ 4 * p = T => pen = QInt(20)
            /\ 4 * p = 3 * T => pen = QInt(0)
            /\ p = T => pen = QInt(0)

\* the last instruction ends at a quarter of the transcript: penalty 20
W_C7_QuarterPosition ==
    /\ HasInstructions
    /\ 4 * LastInstructionEnd = calc.totalTokens
    /\ calc.locals.instructionPenalty = QInt(20)

\* sum of the lengths of the non-draft messages of the recorded call
nonDraftChars(msgs, k) ==
    SumRange([j \in DOMAIN msgs |-> IF msgs[j].isDraft THEN 0 ELSE msgs[j].charCount],
             1, k)

\* max(non-draft message chars, visible chars) of the recorded call
EffectiveChars ==
    LET fromMessages == nonDraftChars(calc.messages, Len(calc.messages))
    IN  IF fromMessages >= calc.totalCharsOverride THEN fromMessages
        ELSE calc.totalCharsOverride

RealUserExists ==
    \E k \in DOMAIN calc.messages :
        calc.messages[k].role = "user" /\ ~calc.messages[k].isDraft

IsInstructionReason(reason) ==
    reason[1] \in { "No core instructions detected", "Primary instruction" }

NonDraftCount ==
    Cardinality({ k \in DOMAIN calc.messages : ~calc.messages[k].isDraft })

ExpectedTokenPenalty ==
    IF calc.totalTokens > 40000 THEN 30
    ELSE IF calc.totalTokens > 25000 THEN 20
    ELSE IF calc.totalTokens > 15000 THEN 10
    ELSE 0

ExpectedMessagePenalty ==
    IF NonDraftCount > 140 THEN 30
    ELSE IF NonDraftCount > 100 THEN 20
    ELSE IF NonDraftCount > 60 THEN 10
    ELSE 0

\* the proxies named by the length reasons of the recorded report, in order
RECURSIVE lengthReasonUnits(_)
lengthReasonUnits(reasons) ==
    IF reasons = << >> THEN << >>
    ELSE IF Head(reasons)[1] = "Conversation length"
         THEN << Head(reasons)[3] >> \o lengthReasonUnits(Tail(reasons))
         ELSE lengthReasonUnits(Tail(reasons))

\* the length penalty is the maximum (not the sum) of the token penalty,
\* the character penalty and the message-count penalty, the first and the
\* last following their threshold tables; a proxy gets a length reason iff
\* its penalty is positive and equals the maximum, in the order token, char,
\* message
LengthPenaltyIsMax ==
    calc.called =>
        LET tp == QInt(ExpectedTokenPenalty)
            mp == QInt(ExpectedMessagePenalty)
            cp == calc.locals.charPenalty
            lp == calc.locals.lengthPenalty
        IN  /\ calc.locals.tokenPenalty = ExpectedTokenPenalty
            /\ calc.locals.messagePenalty = ExpectedMessagePenalty
            /\ QLeq(tp, lp) /\ QLeq(cp, lp) /\ QLeq(mp, lp)
            /\ lp \in { tp, cp, mp }
            /\ lengthReasonUnits(calc.result.reasons) =
                   (IF lp = tp /\ QLess(QInt(0), tp) THEN << "tokens" >> ELSE << >>)
                   \o (IF lp = cp /\ QLess(QInt(0), cp) THEN << "chars" >> ELSE << >>)
                   \o (IF lp = mp /\ QLess(QInt(0), mp) THEN << "messages" >> ELSE << >>)

\* the example: 16000 tokens, 250000 characters, 70 messages
LengthExample ==
    /\ calc.called
    /\ calc.totalTokens = 16000
    /\ EffectiveChars = 250000
    /\ NonDraftCount = 70

\* C9 as stated: the length penalty is the maximum of the three proxies
\* with the reasons of the proxies that attain it, and the example of 16000
\* tokens, 250000 characters and 70 messages gives about 52 (here: between
\* 51 and 53) with only the char reason.
CE_C9_ExampleGivesAbout52 ==
    /\ LengthPenaltyIsMax
    /\ LengthExample =>
           /\ QLeq(QInt(51), calc.locals.lengthPenalty)
           /\ QLeq(calc.locals.lengthPenalty, QInt(53))
           /\ lengthReasonUnits(calc.result.reasons) = << "chars" >>

\* C9 amended: the length penalty is the maximum of the three proxies with
\* the reasons of the proxies that attain it, and the example of 16000
\* tokens, 250000 characters and 70 messages gives 50 + 25/28 (about 50.9)
\* with only the char reason.
T_C9_LengthPenaltyIsMax ==
    /\ LengthPenaltyIsMax
    /\ LengthExample =>
           /\ calc.locals.lengthPenalty = [i |-> 50, n |-> 25, d |-> 28]
           /\ lengthReasonUnits(calc.result.reasons) = << "chars" >>

\* the example has been scored: token and message penalty are 10 each and
\* the character penalty decides
W_C9_SpecExample ==
    /\ LengthExample
    /\ calc.locals.tokenPenalty = 10
    /\ calc.locals.messagePenalty = 10
    /\ calc.locals.charPenalty = calc.locals.lengthPenalty

\* C10: the character penalty is the piecewise-linear interpolation of
\* (0,0), (120000,25), (240000,50), (800000,100) at
\* effectiveChars = max(non-draft message chars, visible chars): 25 at
\* 120000, 37.5 at 180000, 100 above 800000, and non-decreasing.
T_C10_CharPenaltyInterpolation ==
    calc.called =>
        LET e == EffectiveChars
            cp == calc.locals.charPenalty
        IN  /\ calc.locals.totalChars = e
            /\ e <= 120000 => QIs(cp, e, 4800)
            /\ (120000 < e /\ e <= 240000) =>
                   QIs(QSub(cp, QInt(25)), e - 120000, 4800)
            /\ (240000 < e /\ e <= 800000) =>
                   QIs(QSub(cp, QInt(50)), e - 240000, 11200)
            /\ e > 800000 => cp = QInt(100)
            /\ e = 120000 => cp = QInt(25)
            /\ e = 180000 => cp = [i |-> 37, n |-> 1, d |-> 2]
            /\ \A v \in OverrideSamples :
                   /\ v <= e => QLeq(interpolatePenalty(CHAR_PENALTY_POINTS, v), cp)
                   /\ e <= v => QLeq(cp, interpolatePenalty(CHAR_PENALTY_POINTS, v))

\* the visible estimate 180000 exceeds the message characters and decides:
\* penalty 37.5
W_C10_VisibleCharsDecide ==
    /\ calc.called
    /\ calc.totalCharsOverride = 180000
    /\ nonDraftChars(calc.messages, Len(calc.messages)) \in 1..179999
    /\ calc.locals.charPenalty = [i |-> 37, n |-> 1, d |-> 2]

\* ------------------------------------------------------------------------
\* Noise, detection and parsing
\* ------------------------------------------------------------------------
\* positions of the assistant messages of the recorded call
AssistantPositions ==
    { k \in DOMAIN calc.messages : calc.messages[k].role = "assistant" }

\* tokens of the assistant messages of the recorded call
AssistantTokens ==
    SumRange([k \in DOMAIN calc.messages |->
                 IF calc.messages[k].role = "assistant"
                 THEN calc.messages[k].tokens ELSE 0],
             1, Len(calc.messages))

\* assistant messages of more than 4000 characters
LongAssistantPositions ==
    { k \in AssistantPositions : calc.messages[k].charCount > 4000 }

\* assistantTokens / totalTokens > 0.7, totalTokens counting the draft
DominanceHolds ==
    calc.totalTokens > 0 /\ 10 * AssistantTokens > 7 * calc.totalTokens

\* C11: the noise penalty is one of 0, 10, 15, 25: 10 iff some assistant
\* message has more than 4000 characters (once, however many), plus 15 iff
\* the assistant share of all tokens, draft included, is strictly above 0.7.
T_C11_NoisePenaltyValues ==
    calc.called =>
        /\ calc.locals.noisePenalty \in { 0, 10, 15, 25 }
        /\ calc.locals.noisePenalty =
               (IF LongAssistantPositions # {} THEN 10 ELSE 0)
               + (IF DominanceHolds THEN 15 ELSE 0)

\* two long assistant messages that also dominate: 10 once, plus 15
W_C11_TwoMonologuesStack ==
    /\ calc.called
    /\ Cardinality(LongAssistantPositions) >= 2
    /\ DominanceHolds
    /\ calc.locals.noisePenalty = 25

\* number of places at which phrase occurs in text
occurrencesOf(text, phrase) ==
    Cardinality({ k \in 1..(Len(text) - Len(phrase) + 1) :
                    SubSeq(text, k, k + Len(phrase) - 1) = phrase })

\* occurrences of phrases of the set in the text, without regard to case,
\* every occurrence counted
imperativeOccurrences(text) ==
    SumRange([k \in DOMAIN IMPERATIVE_PHRASES |->
                 occurrencesOf(toLowerCase(text), IMPERATIVE_PHRASES[k])],
             1, Len(IMPERATIVE_PHRASES))

\* phrases of the set that occur in the text, without regard to case
imperativePhrasesIn(text) ==
    { k \in DOMAIN IMPERATIVE_PHRASES :
        occurrencesOf(toLowerCase(text), IMPERATIVE_PHRASES[k]) >= 1 }

\* position k of the parsed transcript holds an unpinned non-draft user message
UnpinnedUser(k) ==
    /\ lastDetect.messages[k].role = "user"
    /\ ~lastDetect.messages[k].isDraft
    /\ lastDetect.messages[k].id \notin lastDetect.pins

\* C12 as stated: the imperative count is the number of occurrences of
\* phrases of the set, repeated occurrences of one phrase each counted, and
\* every unpinned non-draft user message with a count of at least 2 is
\* flagged.
CE_C12_OccurrencesFlag ==
    lastDetect.called =>
        \A k \in DOMAIN lastDetect.messages :
            (UnpinnedUser(k) /\ imperativeOccurrences(lastDetect.messages[k].text)
                                    >= MIN_IMPERATIVES)
                => k \in Range(lastDetect.result)

\* C12 amended: the imperative count is the number of different phrases of
\* the set that occur in the text without regard to case (a phrase that
\* occurs several times counts once), and every unpinned non-draft user
\* message in which at least 2 different phrases occur is flagged.
T_C12_DistinctPhrasesFlag ==
    lastDetect.called =>
        \A k \in DOMAIN lastDetect.messages :
            (UnpinnedUser(k) /\ Cardinality(imperativePhrasesIn(lastDetect.messages[k].text))
                                    >= MIN_IMPERATIVES)
                => k \in Range(lastDetect.result)

\* an unpinned user message behind the first three, with two phrases of
\* which one is capitalised, is flagged
W_C12_TwoPhrasesLate ==
    /\ lastDetect.called
    /\ \E k \in DOMAIN lastDetect.messages :
          /\ UnpinnedUser(k)
          /\ lastDetect.messages[k].text = TxtImper
          /\ Cardinality({ j \in 1..k : lastDetect.messages[j].role = "user" })
                 > EARLY_MESSAGE_COUNT
          /\ k \in Range(lastDetect.result)

\* rank of position k among the user messages of the parsed transcript
UserRank(k) ==
    Cardinality({ j \in 1..k : lastDetect.messages[j].role = "user" })

\* a line of the text starts, after optional white space, with "-" or "*"
\* or a number and a dot, followed by white space
LineLeadingList(text) ==
    \E i \in DOMAIN text, j \in DOMAIN text :
        /\ i <= j /\ j < Len(text)
        /\ i = 1 \/ text[i - 1] = "\n"
        /\ \A m \in i..(j - 1) : IsSpace(text[m])
        /\ \/ text[j] \in { "-", "*" } /\ IsSpace(text[j + 1])
           \/ \E e \in j..(Len(text) - 2) :
                 /\ \A m \in j..e : IsDigit(text[m])
                 /\ text[e + 1] = "."
                 /\ IsSpace(text[e + 2])

\* the positions the claim names: non-draft user messages that are pinned,
\* or hold two phrases, or are among the first three user messages and hold
\* a list
ExpectedInstructions ==
    { k \in DOMAIN lastDetect.messages :
        /\ lastDetect.messages[k].role = "user"
        /\ ~lastDetect.messages[k].isDraft
        /\ \/ lastDetect.messages[k].id \in lastDetect.pins
           \/ Cardinality(imperativePhrasesIn(lastDetect.messages[k].text))
                  >= MIN_IMPERATIVES
           \/ /\ UserRank(k) <= EARLY_MESSAGE_COUNT
              /\ LineLeadingList(lastDetect.messages[k].text) }

T_C14_IdsPairwiseDistinct ==
    lastParse.called =>
        \A j, k \in DOMAIN lastParse.messages :
            j # k => idText(lastParse.messages[j].id) # idText(lastParse.messages[k].id)

\* a pass over two equal user texts and a third of the same hash, with a draft
W_C14_CollidingAndDraft ==
    /\ lastParse.called
    /\ Len(lastParse.messages) = 4
    /\ hashText(TxtAb) = hashText(TxtBa)
    /\ \A k \in 1..3 : lastParse.messages[k].role = "user"
    /\ lastParse.messages[1].text = TxtAb
    /\ lastParse.messages[2].text = TxtAb
    /\ lastParse.messages[3].text = TxtBa
    /\ lastParse.messages[4].isDraft
    /\ idText(lastParse.messages[4].id) = << "d", "r", "a", "f", "t" >>
    /\ idText(lastParse.messages[3].id)
           = << "m", "s", "g", "_", "u", "s", "e", "r", "_" >>
               \o [k \in DOMAIN hashText(TxtBa) |-> Base36Chars[hashText(TxtBa)[k] + 1]]
               \o << "_", "3" >>


\* the token estimates of messages lo..hi added up
RECURSIVE TokensOfRange(_, _, _)
TokensOfRange(msgs, lo, hi) ==
    IF lo > hi THEN 0 ELSE msgs[lo].tokens + TokensOfRange(msgs, lo + 1, hi)

PositionalId(i) == [kind |-> "legacy", role |-> "", hash |-> << >>, n |-> i]

\* the positions whose positional id was pinned before the pass and whose
\* element the pass resolved to a content id
MigratedPositions ==
    { i \in 0..(Len(dom) - 1) :
        /\ PositionalId(i) \in lastParse.pinsBefore
        /\ dom[i + 1].healthbarId.kind = "content" }

\* C17: a parse pass replaces every pinned positional id msg_i whose
\* position resolves to a content id X by X, leaves all other entries of
\* the PinSet as they were, and invokes savePinsToStorage exactly once if it
\* migrated at least one entry and not at all if it migrated none
T_C17_LegacyPinsMigrateOnce ==
    lastParse.called =>
        /\ \A i \in MigratedPositions :
              /\ dom[i + 1].healthbarId \in pinnedMessageIds
              /\ PositionalId(i) \notin pinnedMessageIds
        /\ pinnedMessageIds =
              (lastParse.pinsBefore \ { PositionalId(i) : i \in MigratedPositions })
                  \cup { dom[i + 1].healthbarId : i \in MigratedPositions }
        /\ lastParse.pinnedMessageIds = pinnedMessageIds
        /\ lastParse.saveCalls = IF MigratedPositions = {} THEN 0 ELSE 1
        /\ pinStore.data["a"] = pinnedMessageIds
        /\ pinStore.data["b"] = OtherPins["b"]

\* a pass that migrated two entries
W_C17_TwoMigratedOneSave ==
    /\ lastParse.called
    /\ Cardinality(MigratedPositions) = 2
    /\ lastParse.saveCalls = 1
    /\ lastParse.pinsBefore # pinnedMessageIds

\* ------------------------------------------------------------------------
\* The draft
\* ------------------------------------------------------------------------
\* the messages of every section of the packet last built
PacketMessages ==
    LET sec == lastPacket.sections
    IN  UNION { { part[k] : k \in DOMAIN part } :
                part \in { sec.firstUser, sec.pinned, sec.salient, sec.lastUser,
                           sec.recent } }

\* what holds of a pass whose draft was appended
DraftCountedNotScored ==
    LET msgs == lastParse.messages
        n == Len(msgs)
    IN  /\ n >= 1
        /\ msgs[n].isDraft
        /\ msgs[n].id = draftId
        /\ msgs[n].text = lastParse.draft
        /\ \A k \in 1..(n - 1) : ~msgs[k].isDraft
        /\ msgs[n].tokens >= 1
        /\ msgs[n].tokenStart = TokensOfRange(msgs, 1, n - 1)
        /\ lastParse.totalTokens = msgs[n].tokenStart + msgs[n].tokens
        /\ lastDetect.called
        /\ \A k \in DOMAIN lastDetect.result : lastDetect.result[k] # n
        /\ calc.called
        /\ calc.totalTokens = lastParse.totalTokens
        /\ calc.result.hasUserMessages = (\E k \in 1..(n - 1) : msgs[k].role = "user")
        /\ calc.locals.messageCount = n - 1
        /\ calc.result.debugStats.messageCount = n - 1
        /\ calc.locals.totalCharsFromMessages
               = SumRange([k \in 1..(n - 1) |-> msgs[k].charCount], 1, n - 1)
        /\ lastPacket.built =>
              /\ \A msg \in PacketMessages : ~msg.isDraft /\ msg.id # draftId
              /\ n > 1 => PacketMessages # {}

Flipped(pins, id) == IF id \in pins THEN pins \ { id } ELSE pins \cup { id }

\* the pins item holds an object whose entry for the conversation is pins
PersistedAs(store, conversation, pins) ==
    /\ store.kind = "object"
    /\ conversation \in DOMAIN store.data
    /\ store.data[conversation] = pins

\* the entries of the other conversations are the same in both items
OthersKept(before, after, conversation) ==
    /\ after.kind = "object"
    /\ \A c \in DOMAIN before.data \ { conversation } :
          c \in DOMAIN after.data /\ after.data[c] = before.data[c]

\* C18: a click on a pin icon runs togglePin(id): it flips the membership
\* of exactly that id and leaves every other id as it was, and when it
\* returns the persisted array of the conversation equals the PinSet and
\* the entries of the other conversations are unchanged (so that a second
\* toggle of the id restores both)
CE_C18_ToggleFlipsAndPersists ==
    [][ \A k \in 1..MaxMessages :
          (phase = "ready" /\ k \in DOMAIN dom /\ dom[k].icon.present /\ ClickPin(k)) =>
              /\ pinnedMessageIds' = Flipped(pinnedMessageIds, dom[k].icon.messageId)
              /\ PersistedAs(pinStore', conversationId', pinnedMessageIds')
              /\ pinStore.kind = "object" =>
                    OthersKept(pinStore, pinStore', conversationId') ]_vars

\* C19: initialize recovers from malformed persisted state: a pins item
\* that is malformed or of the wrong shape gives the empty PinSet and is
\* discarded, so that the item can be written again; a handoff item that is
\* malformed or lacks packet or createdAt gives no handoff
CE_C19_CorruptStateDiscarded ==
    [][ (phase = "loading" /\ Initialize) =>
          /\ pinStoreThrows([pinStore |-> pinStore]) =>
                /\ pinnedMessageIds' = {}
                /\ ~pinStoreThrows([pinStore |-> pinStore'])
          /\ (\/ handoffStore.kind = "malformed"
              \/ handoffStore.kind = "object"
                    /\ (handoffStore.packet = << >> \/ handoffStore.createdAt = 0)) =>
                /\ ~handoffApplied'
                /\ ~handoffApplyTimer'.active
                /\ draft' = draft ]_vars

\* the handoff record whose packet a step inserts: the one the retry timer
\* holds, else the stored one
InsertedRecord ==
    IF handoffApplyTimer.active THEN handoffApplyTimer ELSE handoffStore

\* C20: a handoff record counts as absent once more than HANDOFF_EXPIRY_MS
\* have passed since its createdAt: no step inserts a packet that is older
\* than that at the time of the insertion
CE_C20_ExpiredNeverInserted ==
    [][ (~handoffApplied /\ handoffApplied') =>
          now' - InsertedRecord.createdAt <= HANDOFF_EXPIRY_MS ]_vars

\* ------------------------------------------------------------------------
\* The sections of the handoff packet
\* ------------------------------------------------------------------------
\* the non-draft messages the packet was built from
PacketSource == SelectSeq(messages, IsNotDraft)

\* position in PacketSource of the message with this id
SourcePosition(id) == CHOOSE k \in DOMAIN PacketSource : PacketSource[k].id = id

\* positions of the recent window: the last maxRecent non-draft messages
RecentPositions ==
    { k \in DOMAIN PacketSource :
        k > Len(PacketSource) - lastPacket.sections.limits.maxRecent }

\* positions outside the recent window with a salience score above 0
SalientCandidates ==
    { k \in DOMAIN PacketSource \ RecentPositions :
        scoreSalience(PacketSource[k]) > 0 }

\* position a comes before position b: higher score, or equal score and
\* earlier in the transcript
RanksBefore(a, b) ==
    \/ scoreSalience(PacketSource[a]) > scoreSalience(PacketSource[b])
    \/ /\ scoreSalience(PacketSource[a]) = scoreSalience(PacketSource[b])
       /\ a < b

\* C21: the key highlights are the first maxSalience of the non-draft
\* messages outside the recent window with a salience score above 0, in the
\* order of descending score and, for equal scores, ascending transcript
\* position; no message is both a highlight and in the recent exchange
T_C21_HighlightsRanked ==
    lastPacket.built =>
        LET salient == lastPacket.sections.salient
            recent == lastPacket.sections.recent
            chosen == { SourcePosition(salient[i].id) : i \in DOMAIN salient }
            maxSalience == lastPacket.sections.limits.maxSalience
        IN  /\ \A i \in DOMAIN salient :
                  /\ \E k \in SalientCandidates : PacketSource[k] = salient[i]
                  /\ \A j \in DOMAIN recent : recent[j].id # salient[i].id
            /\ Len(salient) = IF Cardinality(SalientCandidates) <= maxSalience
                               THEN Cardinality(SalientCandidates) ELSE maxSalience
            /\ Cardinality(chosen) = Len(salient)
            /\ \A i, j \in DOMAIN salient :
                  i < j => RanksBefore(SourcePosition(salient[i].id),
                                       SourcePosition(salient[j].id))
            /\ \A k \in SalientCandidates \ chosen :
                  \A c \in chosen : RanksBefore(c, k)
            /\ { recent[j].id : j \in DOMAIN recent }
                  = { PacketSource[k].id : k \in RecentPositions }

\* four candidates for three places: the later message with the higher
\* score comes first, two of equal score follow in transcript order, and
\* the third of that score is left out
W_C21_ScoreBeatsPosition ==
    /\ lastPacket.built
    /\ Cardinality(SalientCandidates) = 4
    /\ Len(lastPacket.sections.salient) = 3
    /\ SourcePosition(lastPacket.sections.salient[1].id) = 4
    /\ SourcePosition(lastPacket.sections.salient[2].id) = 1
    /\ SourcePosition(lastPacket.sections.salient[3].id) = 2
    /\ scoreSalience(PacketSource[3]) = scoreSalience(PacketSource[2])

\* the non-draft messages whose id is in the PinSet, in transcript order
PinnedSource ==
    LET isPinned(msg) == msg.id \in pinnedMessageIds
    IN  SelectSeq(PacketSource, isPinned)

\* the pinned section as the claim describes it: the heading, then one line
\* per listed message that names the role of that message
PinnedBlockByRole ==
    LET listed == firstOf(PinnedSource, lastPacket.sections.limits.maxPinned)
    IN  joinLines(<< PacketHeadings.pinned >>
                      \o [i \in DOMAIN listed |->
                             labelledLine(listed[i],
                                          lastPacket.sections.limits.maxChars)],
                  1)

\* C22: the pinned instructions of a packet list, in transcript order, at
\* most maxPinned of the non-draft messages whose id is in the PinSet, each
\* under the label of the role of its own message
CE_C22_PinnedLabelledByRole ==
    (lastPacket.built /\ PinnedSource # << >>) =>
        /\ lastPacket.sections.pinned
               = firstOf(PinnedSource, lastPacket.sections.limits.maxPinned)
        /\ includes(lastPacket.packet, PinnedBlockByRole)

RichnessOrder == << "compact", "standard", "rich" >>

\* the place in RichnessOrder of the richness that the settings name
RichnessRank ==
    IF settings.loaded /\ settings.handoffRichness = "compact" THEN 1
    ELSE IF settings.loaded /\ settings.handoffRichness = "standard" THEN 2
    ELSE 3

LimitFields == { "maxChars", "maxPinned", "maxRecent", "maxSalience" }

\* C23: the limits of a packet are those of the richness that the settings
\* name, no limit is below that of a lower richness or above that of a
\* higher one, and settings that are absent or name no richness, the
\* empty one or an unknown one give exactly the limits of "rich"
T_C23_LimitsByRichness ==
    lastPacket.built =>
        LET limits == lastPacket.sections.limits
            limitsOf(k) == getHandoffLimits(loadedSettings(RichnessOrder[k]))
        IN  /\ limits = limitsOf(RichnessRank)
            /\ \A k \in 1..3 : \A field \in LimitFields :
                   /\ k < RichnessRank => limitsOf(k)[field] <= limits[field]
                   /\ k > RichnessRank => limits[field] <= limitsOf(k)[field]
            /\ (~settings.loaded
                  \/ settings.handoffRichness \notin { "compact", "standard" })
                  => limits = [ maxChars |-> HANDOFF_MAX_MESSAGE_CHARS,
                                maxPinned |-> HANDOFF_MAX_PINNED,
                                maxRecent |-> HANDOFF_MAX_RECENT,
                                maxSalience |-> HANDOFF_MAX_SALIENCE ]

W_C23_UnknownRichness ==
    /\ lastPacket.built
    /\ settings.loaded
    /\ settings.handoffRichness = "verbose"
    /\ lastPacket.sections.limits.maxRecent = HANDOFF_MAX_RECENT

\* ------------------------------------------------------------------------
\* Ratios over the total of tokens
\* ------------------------------------------------------------------------
\* the locals of calculateHealth on what the pass has parsed
ParsedLocals ==
    healthLocals(lastParse.messages, lastParse.totalTokens,
                 detectInstructions(lastParse.messages, pinnedMessageIds),
                 IF lastParse.totalCharsFromMessages >= visibleChars
                 THEN lastParse.totalCharsFromMessages ELSE visibleChars)

\* C24: every parsed message has a token, so that calculateHealth is given
\* a total of at least one token whenever a message or an instruction
\* index exists; on a total of zero tokens there is no instruction-distance
\* penalty and no dominance penalty, and the report is a valid one
T_C24_RatiosOverZeroTokens ==
    lastParse.called =>
        /\ \A k \in DOMAIN lastParse.messages : lastParse.messages[k].tokens >= 1
        /\ Len(lastParse.messages) > 0 => lastParse.totalTokens >= 1
        /\ calc.called =>
               /\ calc.messages = lastParse.messages
               /\ calc.totalTokens = lastParse.totalTokens
               /\ (Len(calc.instructionIndices) > 0 \/ Len(calc.messages) > 0)
                      => calc.totalTokens >= 1
        /\ lastParse.totalTokens = 0 =>
               /\ ParsedLocals.instructionPenalty = QInt(0)
               /\ ParsedLocals.noisePenalty = 0
               /\ ParsedLocals.health \in 0..100
               /\ ParsedLocals.tier \in { "stable", "degrading", "unreliable", "critical" }
               /\ hud.rendered
               /\ hud.data.health = 100
               /\ hud.data.tier = "stable"

\* a page of blank elements and a blank draft: nothing is parsed
W_C24_BlankPageNoTokens ==
    /\ lastParse.called
    /\ Len(lastParse.dom) = MaxPage
    /\ lastParse.draft = TxtBlank
    /\ lastParse.totalTokens = 0
    /\ hud.rendered

\* ------------------------------------------------------------------------
\* Pin icons
\* ------------------------------------------------------------------------
\* C25: once the page is initialized, the pin icon of every user message
\* that has one shows the pinned state exactly when the id of its message
\* is in the PinSet, and a click on it toggles that id
CE_C25_IconShowsPinState ==
    phase = "ready" =>
        \A k \in DOMAIN dom :
            dom[k].icon.present =>
                /\ dom[k].role = "user"
                /\ dom[k].icon.messageId = dom[k].healthbarId
                /\ dom[k].icon.pinned <=> (dom[k].healthbarId \in pinnedMessageIds)

\* ------------------------------------------------------------------------
\* The PinSet and the conversation on display
\* ------------------------------------------------------------------------
\* the conversation that the address names
DisplayedConversation == getConversationId(pathname')

\* what localStorage holds for a conversation
PersistedPins(store, conversation) ==
    IF store.kind = "object" /\ conversation \in DOMAIN store.data
    THEN store.data[conversation] ELSE {}

\* a step that writes the pins item writes the PinSet under the displayed
\* conversation and keeps what is stored for the others
SavesUnderDisplayed ==
    pinStore' # pinStore =>
        /\ PersistedPins(pinStore', DisplayedConversation) = pinnedMessageIds'
        /\ \A other \in { "a", "b", "default" } \ { DisplayedConversation } :
               PersistedPins(pinStore', other) = PersistedPins(pinStore, other)

\* a step that runs detectInstructions runs it with the pins persisted for
\* the displayed conversation
DetectsWithDisplayed ==
    (lastDetect' # lastDetect /\ lastDetect'.called) =>
        lastDetect'.pins = PersistedPins(pinStore', DisplayedConversation)

\* C26: across changes of the address between conversations without a
\* reload, every save writes the pins under the conversation of the
\* current address and leaves those of other conversations alone, and
\* detectInstructions uses the PinSet persisted for that conversation
CE_C26_PinsOfDisplayedConversation ==
    [][ phase = "ready" => (SavesUnderDisplayed /\ DetectsWithDisplayed) ]_vars

\* ------------------------------------------------------------------------
\* Insertion of the stored handoff packet
\* ------------------------------------------------------------------------
\* a step in which setDraftInputText inserts the packet
PacketInserted == ~handoffApplied /\ handoffApplied'

\* the page shows a sent user message
SentUserMessage ==
    \E k \in DOMAIN dom' : dom'[k].role = "user" /\ trim(dom'[k].text) # << >>

\* C27: when a step inserts the stored packet into the draft input, the
\* transcript holds no sent user message, whatever the order of updates,
\* ticks of the retry timer, typing and sending
CE_C27_InsertedBeforeFirstMessage ==
    [][ PacketInserted => ~SentUserMessage ]_vars

\* a step that writes a packet into the draft input
PacketWritten == draft' # draft /\ draft' = formattedHandoff(TxtPlain)

\* what a page session keeps about the insertion, but for the state of the
\* input before it: a packet is written only by the one step that sets
\* handoffApplied, which removes the stored record and clears the retry
\* timer; handoffApplied stays set; a running retry timer is not replaced
\* and has made at most HANDOFF_MAX_ATTEMPTS attempts
InsertedOnce ==
    /\ PacketWritten =>
           /\ ~handoffApplied /\ handoffApplied'
           /\ inputPresent
           /\ handoffStore' = AbsentItem
           /\ ~handoffApplyTimer'.active
    /\ handoffApplied => handoffApplied'
    /\ handoffApplied' => ~handoffApplyTimer'.active
    /\ (handoffApplyTimer.active /\ handoffApplyTimer'.active) =>
           /\ handoffApplyTimer'.packet = handoffApplyTimer.packet
           /\ handoffApplyTimer'.attempts >= handoffApplyTimer.attempts
    /\ handoffApplyTimer'.active =>
           handoffApplyTimer'.attempts <= HANDOFF_MAX_ATTEMPTS

\* C28 as stated: a packet is inserted at most once in a page session and
\* only into an input that holds nothing; the insertion removes the stored
\* record, sets handoffApplied and clears the retry timer, no later step
\* inserts again, and a retry timer is alone and makes at most 20 attempts
CE_C28_InsertedOnceIntoEmptyInput ==
    [][ InsertedOnce /\ (PacketWritten => draft = << >>) ]_vars

\* C28: the same, for an input that holds no character other than white
\* space when the packet is inserted
T_C28_InsertedOnceIntoBlankInput ==
    [][ InsertedOnce /\ (PacketWritten => IsBlank(draft)) ]_vars

\* a tick of the retry timer has inserted the packet
W_C28_InsertedByRetry ==
    /\ handoffApplied
    /\ now > LoadTime
    /\ draft = formattedHandoff(TxtPlain)
    /\ handoffStore = AbsentItem
    /\ ~handoffApplyTimer.active

\* ------------------------------------------------------------------------
\* Auto-load of the history
\* ------------------------------------------------------------------------
\* a step that ends the run of the auto-load
RunEnds == autoLoadInProgress /\ ~autoLoadInProgress'

\* what a step keeps of the run: it ends only by a tick that finds six idle
\* ticks counted or the maximum duration exceeded, which marks it complete,
\* clears its timer and schedules the health-bar update; a complete run
\* stays complete and none starts after it; a running timer is not replaced
RunKept ==
    /\ RunEnds =>
           /\ autoLoadComplete'
           /\ ~autoLoadTimer'.active
           /\ updateTimer'
           /\ \/ autoLoadTimer.idleTicks >= AUTO_LOAD_IDLE_TICKS
              \/ now' - autoLoadTimer.startTime > AUTO_LOAD_MAX_MS
    /\ autoLoadComplete => (autoLoadComplete' /\ ~autoLoadInProgress')
    /\ (autoLoadTimer.active /\ autoLoadTimer'.active) =>
           autoLoadTimer'.startTime = autoLoadTimer.startTime

\* C29: auto-load runs at most once in a page session and ends: the run
\* is never both in progress and complete, its timer is the only one and is
\* active exactly while the run is in progress, the run ends as RunKept
\* says, and a run in progress is eventually complete and not in progress
T_C29_AutoLoadOnceAndEnds ==
    /\ [](~(autoLoadInProgress /\ autoLoadComplete))
    /\ [](autoLoadTimer.active <=> autoLoadInProgress)
    /\ [][RunKept]_vars
    /\ (autoLoadInProgress ~> (autoLoadComplete /\ ~autoLoadInProgress))

\* the run has ended by the tick after six idle ticks, all on time
W_C29_EndedAfterIdleTicks ==
    /\ autoLoadComplete
    /\ ~autoLoadInProgress
    /\ ~autoLoadTimer.active
    /\ now = (AUTO_LOAD_IDLE_TICKS + 1) * AUTO_LOAD_INTERVAL_MS

====
